---------------------------- MODULE Spec2Model ----------------------------
(***************************************************************************)
(* A model of the receipt ingestion and processing pipeline of             *)
(* expense-flow (backend/app): the inbound-email front door with its       *)
(* processed-email ledger (api/v1/email.py), the direct-upload and manual  *)
(* front doors, edit, approve, delete, restore and dismiss-duplicate       *)
(* (api/v1/receipts.py), the OCR pipeline run (services/ocr.py), the audit *)
(* log (services/audit.py) and the duplicate detector                      *)
(* (services/duplicate_detection.py).                                      *)
(*                                                                         *)
(* The database is modelled at commit granularity: every step of a handler *)
(* ends at a db.commit(), reads what is committed at that moment, and      *)
(* keeps in its own record what the handler holds in local variables.      *)
(* Text values are strings; a NULL column is the string "NULL".            *)
(***************************************************************************)
EXTENDS Integers, Sequences, FiniteSets, TLC

VARIABLES
    now,        \* wall clock, in days
    ledger,     \* processed_emails rows: [hash, at]
    reqs,       \* in-flight inbound-email requests, one per worker slot
    elog,       \* observer: finished email submissions and prunings, in order
    receipts,   \* receipts table: row id = index
    audit,      \* audit_logs table: audit[rid] holds the rows of receipt rid,
                \* in the order of their insertion
    store,      \* object store: the set of stored blobs
    runs,       \* pipeline runs, one record per receipt id
    ureq,       \* the in-flight user request (upload, edit, approve, ...)
    quota       \* what the environment may still send: emails, messages, ...

vars == <<now, ledger, reqs, elog, receipts, audit, store, runs, ureq, quota>>

NULL == "NULL"

(***************************************************************************)
(* Bounds of the model.                                                    *)
(***************************************************************************)
\* email submissions per behaviour
MaxEmails == 2
\* largest declared attachment count of an inbound email
MaxAttach == 2
\* the ledger size above which the cleanup runs; stands for the 1000 of
\* email.py:107, scaled to the number of emails a behaviour can hold
PruneThreshold == 2
\* email submissions per behaviour of the ledger specification
MaxLedgerEmails == 4
\* receipts per behaviour of the lifecycle specification
MaxReceipts == 1
\* requests on existing receipts (edit, approve, delete, restore, dismiss)
\* per behaviour of the lifecycle specification
MaxOps == 2

(***************************************************************************)
(* Program constants.                                                      *)
(***************************************************************************)
MAX_FILE_SIZE == 10 * 1024 * 1024
RetentionDays == 7
\* days that pass in one clock step: a ledger row is inside the retention
\* window after one step and outside it after two
DayStep == RetentionDays \div 2 + 1
\* the clock stops here
MaxClock == 2 * DayStep

SUPPORTED_EXTENSIONS == {".jpg", ".jpeg", ".png", ".pdf"}

(***************************************************************************)
(* The users table: id, forwarding address, is_active.                     *)
(***************************************************************************)
Users == { [id |-> 1, unique_receipt_email |-> "a@r", is_active |-> TRUE],
           [id |-> 2, unique_receipt_email |-> "b@r", is_active |-> FALSE] }

(***************************************************************************)
(* Inbound emails.  files[i] is the form field attachment<i>: ABSENT when  *)
(* the field is missing or is not a file, else the file's filename ("" for *)
(* a file part without a name).                                            *)
(***************************************************************************)
ABSENT == "<absent>"
Recipients == {"a@r", "A <A@R>", "b@r", "x@r"}
Senders == {"s@x"}
Subjects == {"inv"}
FileNames == {"", "a.jpg", "b.pdf"}
FileOpts == {ABSENT} \cup FileNames
Sizes == {MAX_FILE_SIZE, MAX_FILE_SIZE + 1}

\* the emails the model draws: every attachment list for the plain address
\* of the active user, at most one attachment for the other recipients
Msgs ==
    { m \in UNION { [to : Recipients, from : Senders, subject : Subjects,
                     count : {c}, files : [1..c -> FileNames]]
                   : c \in 0..MaxAttach }
        : m.to = "a@r" \/ m.count <= 1 }

\* the emails the environment sends under each specification
Inbox(tag) ==
    IF tag = "any" THEN Msgs
    ELSE IF tag = "attachments"
    THEN { m \in Msgs : m.to = "a@r" /\ m.count = MaxAttach
                                     /\ m.files[MaxAttach] = "a.jpg" }
    ELSE IF tag = "redeliver"
    THEN { m \in Msgs : /\ m.to \in {"a@r", "x@r"}
                        /\ m.count <= 1
                        /\ m.count = 1 => (m.files[1] = "a.jpg" /\ m.to = "a@r") }
    ELSE { m \in Msgs : m.to = "a@r" /\ m.count = 1 /\ m.files[1] # "" }

\* f"file{i}"
FileN(i) ==
    CASE i = 1 -> "file1" [] i = 2 -> "file2" [] i = 3 -> "file3"
      [] OTHER -> "file4"

\* the position of a name in Python's string order
Rank(name) ==
    CASE name = "a.jpg" -> 1 [] name = "b.pdf" -> 2 [] name = "c.txt" -> 3
      [] name = "file1" -> 4 [] name = "file2" -> 5 [] name = "file3" -> 6
      [] OTHER -> 7

\* email.py:72-78: the names of the file fields attachment1..attachment<n>
RECURSIVE AttachmentNamesFrom(_, _)
AttachmentNamesFrom(m, i) ==
    IF i > m.count THEN <<>>
    ELSE (IF m.files[i] = ABSENT THEN <<>>
          ELSE << IF m.files[i] = "" THEN FileN(i) ELSE m.files[i] >>)
         \o AttachmentNamesFrom(m, i + 1)

AttachmentNames(m) == AttachmentNamesFrom(m, 1)

\* sorted(names)
RECURSIVE Insert(_, _)
Insert(x, s) ==
    IF s = <<>> THEN <<x>>
    ELSE IF Rank(x) <= Rank(Head(s)) THEN <<x>> \o s
    ELSE <<Head(s)>> \o Insert(x, Tail(s))

RECURSIVE Sorted(_)
Sorted(s) == IF s = <<>> THEN <<>> ELSE Insert(Head(s), Sorted(Tail(s)))

\* the fingerprint without sorted(): the names in arrival order
EmailHashUnsorted(m) ==
    <<m.to, m.from, m.subject, m.count, AttachmentNames(m)>>

\* email.py:81-82: the fingerprint and its digest.  The digest is taken to
\* be injective, so the fingerprint stands for it.
EmailHash(m) ==
    <<m.to, m.from, m.subject, m.count, Sorted(AttachmentNames(m))>>

\* email.py:118-119: the address inside <...>, lower-cased and stripped
RecipientEmail(to) ==
    CASE to = "A <A@R>" -> "a@r"
      [] OTHER -> to

\* email.py:174-176
FileExtWithDot(filename) ==
    CASE filename = "a.jpg" -> ".jpg"
      [] filename = "b.pdf" -> ".pdf"
      [] filename = "c.txt" -> ".txt"
      [] OTHER -> "."

\* email.py:201
EmailVendor(m) ==
    IF m.from = NULL THEN "Receipt from email" ELSE "Receipt from s@x"

\* email.py:206
EmailNotes(m) ==
    IF m.subject # "" /\ m.from # NULL
    THEN "Subject: inv / Received via email from s@x"
    ELSE IF m.from # NULL THEN "Received via email from s@x"
    ELSE "Received via email"

(***************************************************************************)
(* Receipts, blobs and pipeline runs.                                      *)
(***************************************************************************)
PENDING == "pending"
PROCESSING == "processing"
COMPLETED == "completed"
FAILED == "failed"
ReceiptStatus == {PENDING, PROCESSING, COMPLETED, FAILED}

\* a blob of the object store; its URL ends in ext
Blob(n, ext) == [n |-> n, ext |-> ext]

\* no blob
NoBlob == Blob(0, "")

\* blob names carry a uuid: a new blob never has the name of an older one
NewBlob(blobs, ext) == Blob(Cardinality(blobs) + 1, ext)

\* storage.py save_image_to_gcs: the preview of a PDF, named after it
PreviewOf(blob) == Blob(blob.n, "_preview.png")

\* datetime.now() / datetime.utcnow() on day t of the clock
NowString(t) ==
    CASE t = 0 -> "2026-01-01 09:00"
      [] t = DayStep -> "2026-01-05 09:00"
      [] OTHER -> "2026-01-09 09:00"

\* the fields of ReceiptBase, in the order of the schema
FieldOrder ==
    << "vendor", "date", "currency", "original_amount", "exchange_rate",
       "exchange_rate_date", "total_amount", "tax_amount", "items",
       "category", "notes", "is_business" >>

EditableFields == {FieldOrder[i] : i \in 1..Len(FieldOrder)}

\* the column defaults of models/receipt.py.  duplicate_of_id is 0 for
\* NULL; source (the front door that made the row) is an observer.
NewReceipt(user_id, image_url, source) ==
    [ user_id |-> user_id, image_url |-> image_url,
      vendor |-> NULL, date |-> NULL, currency |-> "GBP",
      original_amount |-> NULL, exchange_rate |-> NULL,
      exchange_rate_date |-> NULL, total_amount |-> NULL,
      tax_amount |-> NULL, items |-> NULL, category |-> NULL,
      notes |-> NULL, is_business |-> "1",
      status |-> PENDING, ocr_raw_text |-> NULL,
      duplicate_suspect |-> 0, duplicate_of_id |-> 0,
      duplicate_dismissed |-> 0, deleted_at |-> NULL,
      source |-> source ]

\* a pipeline run: pc is the next step of process_receipt_ocr, after the
\* run that the same request scheduled before it (0 for none), old_status,
\* raw_text and extracted_fields are its local variables, dirty the
\* attributes it has set but not committed.  image_at_start, parsed and
\* outcome are observers, parsed_data what parse_receipt_with_ai returned
\* to the run in flight (no field has a value, not even an empty list,
\* before it returns).
NoRun ==
    [pc |-> "none", caller |-> "none", after |-> 0, old_status |-> NULL,
     raw_text |-> NULL,
     parsed_data |-> [vendor |-> NULL, date |-> NULL, total_amount |-> NULL,
                      tax_amount |-> NULL, items |-> NULL, category |-> NULL],
     extracted_fields |-> {}, dirty |-> {},
     image_at_start |-> NoBlob, failed_at |-> NULL, parsed |-> FALSE,
     outcome |-> NULL, detector |-> NULL]

\* background_tasks.add_task(process_receipt_ocr_background, receipt.id):
\* the tasks of one request run one after the other, in the order added
ScheduledRun(after) ==
    [NoRun EXCEPT !.pc = "start", !.caller = "background", !.after = after]

\* process_receipt_ocr(new_receipt.id, db) in upload_receipt_image
CalledRun == [NoRun EXCEPT !.pc = "start", !.caller = "upload"]

(***************************************************************************)
(* Inbound email: receive_email, email.py:41-244.                          *)
(***************************************************************************)
Slots == {1, 2}

IdleReq == [pc |-> "idle", msg |-> NULL, began |-> 0]

\* observer: one finished submission.  present: the fingerprint was in the
\* ledger when the request tried to claim it; recorded: the request
\* inserted its ledger row; created, stored: the receipts and blobs it made;
\* env: what happened to each attachment, kept where the specification
\* looks at the attachments one by one; at: the day of the submission
EmailDone(m, status, began, present, recorded, created, stored) ==
    [kind |-> "email", msg |-> m, status |-> status, began |-> began,
     present |-> present, recorded |-> recorded, created |-> created,
     stored |-> stored, env |-> <<>>, at |-> now]

\* observer: a cleanup that deleted ledger rows
PruneMark ==
    [kind |-> "prune", msg |-> NULL, status |-> NULL, began |-> 0,
     present |-> FALSE, recorded |-> FALSE, created |-> {}, stored |-> {},
     env |-> <<>>, at |-> now]

\* db.query(ProcessedEmail).filter(email_hash == h).first()
LedgerHas(h) == \E row \in ledger : row.hash = h

\* email.py:68-92: the fingerprint and the ledger lookup.  The workers are
\* alike: a request takes the first free slot.
EmailLookup(s, m) ==
    /\ reqs[s].pc = "idle"
    /\ \A t \in Slots : t < s => reqs[t].pc # "idle"
    /\ quota.emails > 0
    /\ m \in Inbox(quota.inbox)
    /\ quota' = [quota EXCEPT !.emails = @ - 1]
    /\ IF LedgerHas(EmailHash(m))
       THEN /\ elog' = Append(elog, EmailDone(m, "duplicate", Len(elog), TRUE, FALSE, {}, {}))
            /\ UNCHANGED reqs
       ELSE /\ reqs' = [reqs EXCEPT ![s] = [pc |-> "record", msg |-> m,
                                            began |-> Len(elog)]]
            /\ UNCHANGED elog
    /\ UNCHANGED <<now, ledger, receipts, audit, store, runs, ureq>>

\* the autoincrement primary key of processed_emails
NextLedgerId ==
    IF ledger = {} THEN 1
    ELSE 1 + (CHOOSE n \in {row.id : row \in ledger} :
                \A row \in ledger : row.id <= n)

\* a ledger without the unique index
LedgerInsertNeverFails(h) == FALSE

\* the unique index on processed_emails.email_hash: the insert of a hash
\* that is present fails
LedgerInsertFails(h) == LedgerHas(h)

\* email.py:95-103: db.add(processed_entry); db.commit().  The commit is
\* outside the handler's try block: an IntegrityError leaves as HTTP 500.
EmailRecord(s) ==
    LET r == reqs[s]
        h == EmailHash(r.msg)
    IN /\ r.pc = "record"
       /\ IF LedgerInsertFails(h)
          THEN /\ elog' = Append(elog, EmailDone(r.msg, "exception", r.began, TRUE, FALSE, {}, {}))
               /\ reqs' = [reqs EXCEPT ![s] = IdleReq]
               /\ UNCHANGED ledger
          ELSE /\ ledger' = ledger \cup {[id |-> NextLedgerId, hash |-> h, at |-> now]}
               /\ reqs' = [reqs EXCEPT ![s].pc = "process"]
               /\ UNCHANGED elog
       /\ UNCHANGED <<now, receipts, audit, store, runs, ureq, quota>>

\* a cleanup that runs at any size of the ledger
CleanupAtAnySize(rows, today) ==
    {row \in rows : ~(row.at < today - RetentionDays)}

\* a cleanup with the cutoff test the wrong way round
CleanupDropsFresh(rows, today) ==
    IF Cardinality(rows) > PruneThreshold
    THEN {row \in rows : row.at < today - RetentionDays}
    ELSE rows

\* email.py:107-111: the rows the cleanup keeps
Cleanup(rows, today) ==
    IF Cardinality(rows) > PruneThreshold
    THEN {row \in rows : ~(row.at < today - RetentionDays)}
    ELSE rows

\* what the environment decides for one attachment: the size of its
\* content and whether the upload and the receipt's commit succeed
AttEnv == [size : Sizes, outcome : {"ok", "store_fails", "commit_fails"}]

\* an attachment loop that ends at the first attachment it cannot store
RECURSIVE ProcessUntilFailure(_, _, _, _, _)
ProcessUntilFailure(m, user, env, i, acc) ==
    IF i > m.count THEN acc
    ELSE
      LET filename == m.files[i]
          blob == NewBlob(acc.store, FileExtWithDot(filename))
          row == [NewReceipt(user.id, blob, "email") EXCEPT
                    !.vendor = EmailVendor(m),
                    !.total_amount = "0.0",
                    !.date = NowString(now),
                    !.notes = EmailNotes(m)]
      IN IF \/ filename = ABSENT
            \/ FileExtWithDot(filename) \notin SUPPORTED_EXTENSIONS
            \/ env[i].size > MAX_FILE_SIZE
         THEN ProcessUntilFailure(m, user, env, i + 1, acc)
         ELSE IF env[i].outcome # "ok" THEN acc
         ELSE ProcessUntilFailure(m, user, env, i + 1,
                [receipts |-> Append(acc.receipts, row),
                 runs |-> Append(acc.runs, ScheduledRun(acc.last)),
                 last |-> Len(acc.receipts) + 1,
                 audit |-> Append(acc.audit, <<>>),
                 store |-> acc.store \cup {blob},
                 created |-> acc.created \cup {Len(acc.receipts) + 1}])

\* email.py:158-227: the attachment loop from attachment i on; acc holds
\* the receipts table, the runs, the store, the receipt created last and
\* the receipts created so far
RECURSIVE ProcessAttachments(_, _, _, _, _)
ProcessAttachments(m, user, env, i, acc) ==
    IF i > m.count THEN acc
    ELSE
      LET filename == m.files[i]
          skip ==
            \/ filename = ABSENT
            \/ FileExtWithDot(filename) \notin SUPPORTED_EXTENSIONS
            \/ env[i].size > MAX_FILE_SIZE
          blob == NewBlob(acc.store, FileExtWithDot(filename))
          row == [NewReceipt(user.id, blob, "email") EXCEPT
                    !.vendor = EmailVendor(m),
                    !.total_amount = "0.0",
                    !.date = NowString(now),
                    !.notes = EmailNotes(m)]
          next ==
            IF skip \/ env[i].outcome = "store_fails" THEN acc
            ELSE IF env[i].outcome = "commit_fails"
            THEN [acc EXCEPT !.store = @ \cup {blob}]
            ELSE [receipts |-> Append(acc.receipts, row),
                  runs |-> Append(acc.runs, ScheduledRun(acc.last)),
                  last |-> Len(acc.receipts) + 1,
                  audit |-> Append(acc.audit, <<>>),
                  store |-> acc.store \cup {blob},
                  created |-> acc.created \cup {Len(acc.receipts) + 1}]
      IN ProcessAttachments(m, user, env, i + 1, next)

\* email.py:105-244: the cleanup, the recipient lookup, the attachment loop
\* and the response
EmailProcess(s) ==
    LET r == reqs[s]
        m == r.msg
        kept == Cleanup(ledger, now)
        found == {u \in Users : u.unique_receipt_email = RecipientEmail(m.to)}
        finish(status, created, stored, env) ==
            /\ elog' = (IF kept # ledger THEN Append(elog, PruneMark) ELSE elog)
                        \o <<[EmailDone(m, status, r.began, FALSE, TRUE, created, stored)
                                EXCEPT !.env = IF quota.inbox = "attachments"
                                               THEN env ELSE <<>>]>>
            /\ reqs' = [reqs EXCEPT ![s] = IdleReq]
    IN /\ r.pc = "process"
       /\ ledger' = kept
       /\ IF found = {} \/ (\E u \in found : ~u.is_active) \/ m.count = 0
          THEN /\ finish("error", {}, {}, <<>>)
               /\ UNCHANGED <<receipts, store, runs, audit>>
          ELSE \E env \in [1..m.count -> AttEnv] :
                 LET user == CHOOSE u \in found : TRUE
                     res == ProcessAttachments(m, user, env, 1,
                              [receipts |-> receipts, runs |-> runs,
                               audit |-> audit, store |-> store,
                               last |-> 0, created |-> {}])
                 IN /\ Len(res.receipts) <= quota.receipts
                    /\ receipts' = res.receipts
                    /\ runs' = res.runs
                    /\ audit' = res.audit
                    /\ store' = res.store
                    /\ finish(IF res.created # {} THEN "success" ELSE "error",
                              res.created, res.store \ store, env)
       /\ UNCHANGED <<now, ureq, quota>>

\* time passes; a request lasts far less than a day, so none is in flight
Tick ==
    /\ now + DayStep <= MaxClock
    /\ \A s \in Slots : reqs[s].pc = "idle"
    /\ now' = now + DayStep
    /\ UNCHANGED <<ledger, reqs, elog, receipts, audit, store, runs, ureq, quota>>

\* no user request in flight; op, rid and code are those of the last one
IdleUreq ==
    [pc |-> "idle", op |-> "none", user |-> 0, rid |-> 0, payload |-> <<>>,
     old_values |-> <<>>, stored |-> <<>>, old_status |-> NULL,
     mark |-> 0, code |-> NULL, result |-> NULL, detector |-> NULL]

\* an environment that sends nothing
NoQuota ==
    [emails |-> 0, inbox |-> "one", uploads |-> 0, creates |-> 0,
     ops |-> 0, edits |-> "none", callers |-> {}, parses |-> "few",
     receipts |-> 0, skew |-> FALSE, auditfail |-> FALSE, dupfail |-> FALSE]

InitDb ==
    /\ now = 0
    /\ ledger = {}
    /\ reqs = [s \in Slots |-> IdleReq]
    /\ elog = <<>>
    /\ receipts = <<>>
    /\ audit = <<>>
    /\ store = {}
    /\ runs = <<>>
    /\ ureq = IdleUreq

\* the inbound-email front door alone, with two deliveries in flight
InitEmail ==
    /\ InitDb
    /\ quota = [NoQuota EXCEPT !.emails = MaxEmails, !.inbox = "any",
                             !.receipts = MaxEmails * MaxAttach]

NextEmail ==
    \/ \E s \in Slots, m \in Msgs : EmailLookup(s, m)
    \/ \E s \in Slots : EmailRecord(s)
    \/ \E s \in Slots : EmailProcess(s)
    \/ Tick

SpecEmail == InitEmail /\ [][NextEmail]_vars

(***************************************************************************)
(* The audit log: services/audit.py.  Values are held as the strings that  *)
(* str() gives; None stays NULL.                                           *)
(***************************************************************************)
NoExtra == [source |-> NULL, extracted_fields |-> {}, restored_at |-> NULL]

\* audit.py:10-51 log_event: the row it inserts.  timestamp is the clock
\* reading of the writing process, a day and an instant us of that day that
\* Logged fills in; writer records which process wrote the row.
Event(receipt_id, event_type, actor, user_id, field_name, old_value, new_value, extra_data) ==
    [receipt_id |-> receipt_id, event_type |-> event_type,
     timestamp |-> [day |-> now, us |-> 0], writer |-> NULL,
     actor |-> actor, user_id |-> user_id,
     field_name |-> field_name, old_value |-> old_value,
     new_value |-> new_value, extra_data |-> extra_data]

\* audit.py:54-77
log_receipt_created(receipt_id, user_id, source) ==
    Event(receipt_id, "created",
          IF source = "manual" THEN "user" ELSE "system:email",
          user_id, NULL, NULL, NULL, [NoExtra EXCEPT !.source = source])

\* audit.py:80-105
log_status_change(receipt_id, old_status, new_status) ==
    Event(receipt_id, "status_changed", "system", 0, "status",
          old_status, new_status, NoExtra)

\* audit.py:108-136
log_field_update(receipt_id, user_id, field_name, old_value, new_value) ==
    Event(receipt_id, "field_updated", "user", user_id, field_name,
          old_value, new_value, NoExtra)

\* audit.py:139-158
log_approval(receipt_id, user_id) ==
    Event(receipt_id, "approved", "user", user_id, NULL, NULL, NULL, NoExtra)

\* audit.py:161-180
log_ocr_completed(receipt_id, extracted_fields) ==
    Event(receipt_id, "ocr_completed", "system:ocr", 0, NULL, NULL, NULL,
          [NoExtra EXCEPT !.extracted_fields = extracted_fields])

\* audit.py:183-202
log_deletion(receipt_id, user_id) ==
    Event(receipt_id, "deleted", "user", user_id, NULL, NULL, NULL, NoExtra)

\* a restore that logs another deletion
log_restored_as_deleted(receipt_id, user_id) ==
    Event(receipt_id, "deleted", "user", user_id, NULL, NULL, NULL, NoExtra)

\* receipts.py:795-803
log_restored(receipt_id, user_id) ==
    Event(receipt_id, "restored", "user", user_id, NULL, NULL, NULL,
          [NoExtra EXCEPT !.restored_at = NowString(now)])

\* the processes that write audit rows: the worker serving the user's
\* request, and the background task of an inbound email
Writers == {"request", "background"}

\* audit.py:40 timestamp=datetime.utcnow(): the instants the writer may read
\* for the next row of receipt rid.  A process reads its own clock before its
\* commit, so its reading is later than its own earlier rows; against the
\* last row of another process it may be later, equal, or earlier (the other
\* process read its clock first and committed last) when the environment
\* lets two processes run at once (quota.skew).
ClockReadings(rid, writer) ==
    LET h == audit[rid]
        own == {h[k].timestamp.us : k \in {j \in 1..Len(h) : h[j].writer = writer}}
        floor == IF own = {} THEN 0
                 ELSE CHOOSE t \in own : \A o \in own : o <= t
        last == IF h = <<>> THEN 0 ELSE h[Len(h)].timestamp.us
        top == IF last > floor THEN last ELSE floor
    IN IF h # <<>> /\ quota.skew /\ h[Len(h)].writer # writer
       THEN {t \in (last - 1)..(top + 1) : t > floor}
       ELSE {last + 1}

\* a log whose writer replaces the newest row of the receipt
LoggedOverLast(rid, events, writer) ==
    { [audit EXCEPT ![rid] =
          SubSeq(@, 1, Len(@) - 1) \o
          [i \in 1..Len(events) |->
              [events[i] EXCEPT !.timestamp.us = t + i - 1,
                                !.writer = writer]]] :
      t \in ClockReadings(rid, writer) }

\* audit.py:38-51: rows written one after the other by one process
LoggedAll(rid, events, writer) ==
    { [audit EXCEPT ![rid] =
          @ \o [i \in 1..Len(events) |->
                  [events[i] EXCEPT !.timestamp.us = t + i - 1,
                                    !.writer = writer]]] :
      t \in ClockReadings(rid, writer) }

\* db.add(audit_log); db.commit()
Logged(rid, event, writer) == LoggedAll(rid, <<event>>, writer)

\* audit.py:49-50: log_event catches nothing, so a db.add or db.commit that
\* raises leaves log_event as an exception and no row is written; the
\* environment decides whether audit writes can fail
AuditRaises == quota.auditfail /\ audit' = audit

\* the process that executes the pipeline run of receipt rid: the upload
\* request awaits it (receipts.py:88), an inbound email schedules it as a
\* background task (email.py:214)
RunWriter(rid) ==
    IF runs[rid].caller = "upload" THEN "request" ELSE "background"

(***************************************************************************)
(* The duplicate detector: services/duplicate_detection.py.                *)
(***************************************************************************)
\* Python truthiness of a stored amount: None and 0.0 are falsy
AmountTruthy(v) == v \notin {NULL, "0.0"}

\* receipt.date.date(), cast(Receipt.date, Date): the calendar day
CalendarDate(d) ==
    CASE d = "2026-02-01 00:00" -> "2026-02-01"
      [] d = "2026-02-01 18:30" -> "2026-02-01"
      [] d = "2026-02-02 00:00" -> "2026-02-02"
      [] d = "2026-01-01 09:00" -> "2026-01-01"
      [] d = "2026-01-05 09:00" -> "2026-01-05"
      [] OTHER -> "2026-01-09"

\* duplicate_detection.py:23-29
DupCheckable(r) ==
    /\ r.vendor \notin {NULL, ""}
    /\ AmountTruthy(r.total_amount)
    /\ r.date # NULL

\* duplicate_detection.py:33-40: the rows the query matches
PotentialDuplicates(rows, rid) ==
    { k \in 1..Len(rows) :
        /\ rows[k].user_id = rows[rid].user_id
        /\ k # rid
        /\ rows[k].deleted_at = NULL
        /\ rows[k].vendor = rows[rid].vendor
        /\ rows[k].total_amount = rows[rid].total_amount
        /\ rows[k].date # NULL
        /\ CalendarDate(rows[k].date) = CalendarDate(rows[rid].date) }

\* duplicate_detection.py:42-49: the value check_for_duplicates returns
DetectorResult(rows, rid) ==
    DupCheckable(rows[rid]) /\ PotentialDuplicates(rows, rid) # {}

\* a detector that flags the matched receipt as well
CheckMarksBoth(rows, rid) ==
    IF ~DupCheckable(rows[rid]) \/ PotentialDuplicates(rows, rid) = {}
    THEN {rows}
    ELSE { [rows EXCEPT ![rid].duplicate_suspect = 1,
                        ![rid].duplicate_of_id = k,
                        ![k].duplicate_suspect = 1]
           : k \in PotentialDuplicates(rows, rid) }

\* a detector that takes the flag and the reference back when nothing
\* matches
CheckClearsFlag(rows, rid) ==
    IF ~DupCheckable(rows[rid]) \/ PotentialDuplicates(rows, rid) = {}
    THEN {[rows EXCEPT ![rid].duplicate_suspect = 0,
                       ![rid].duplicate_of_id = 0]}
    ELSE { [rows EXCEPT ![rid].duplicate_suspect = 1,
                        ![rid].duplicate_of_id = k]
           : k \in PotentialDuplicates(rows, rid) }

\* duplicate_detection.py:10-49 check_for_duplicates: the tables it can
\* leave; .first() without an ORDER BY returns any matching row
CheckForDuplicates(rows, rid) ==
    IF ~DupCheckable(rows[rid]) \/ PotentialDuplicates(rows, rid) = {}
    THEN {rows}
    ELSE { [rows EXCEPT ![rid].duplicate_suspect = 1,
                        ![rid].duplicate_of_id = k]
           : k \in PotentialDuplicates(rows, rid) }

\* a detector whose failed commit leaves the flag it had set
GuardedCheckKeepsFlag(rows, rid) ==
    { [rows |-> t, detector |-> "returned"] : t \in CheckForDuplicates(rows, rid) }
    \cup IF quota.dupfail
         THEN { [rows |-> [rows EXCEPT ![rid].duplicate_suspect = 1],
                 detector |-> "raised"] }
         ELSE {}

\* the call of the detector inside try/except Exception (ocr.py:442-449,
\* receipts.py:448-452 and 507-513): it returns, or it raises where the
\* environment lets it (a query or a commit that fails, which writes
\* nothing) and the caller prints the error and goes on
GuardedCheck(rows, rid) ==
    { [rows |-> t, detector |-> "returned"] : t \in CheckForDuplicates(rows, rid) }
    \cup IF quota.dupfail
         THEN { [rows |-> rows, detector |-> "raised"] }
         ELSE {}

(***************************************************************************)
(* The pipeline run: process_receipt_ocr, ocr.py:335-464.                  *)
(***************************************************************************)
\* the text the vision service reads from a blob
RawText(blob) ==
    IF blob.ext = ".pdf" THEN "ACME 42.50 page 1" ELSE "ACME 42.50"

\* what parse_receipt_with_ai can return: the all-null map of its except
\* branch, a full answer, and answers with one field the merge rejects
FullParse ==
    [vendor |-> "Acme", date |-> "2026-02-01", total_amount |-> "42.50",
     tax_amount |-> "7.0", items |-> "[{'name': 'x'}]",
     category |-> "Travel Costs"]

NullParse ==
    [vendor |-> NULL, date |-> NULL, total_amount |-> NULL,
     tax_amount |-> NULL, items |-> "[]", category |-> NULL]

ParseResults(tag) ==
    IF tag = "few"
    THEN { NullParse, FullParse,
           [FullParse EXCEPT !.total_amount = "42.50 GBP"] }
    ELSE { NullParse, FullParse,
           [FullParse EXCEPT !.date = "01/02/2026"],
           [FullParse EXCEPT !.category = "Groceries"],
           [FullParse EXCEPT !.total_amount = "0"],
           [FullParse EXCEPT !.total_amount = "42.50 GBP"],
           [NullParse EXCEPT !.vendor = "Acme", !.tax_amount = "n/a"] }

\* a test for None in place of truthiness
NotNone(v) == v # NULL

\* truthiness of a parsed value: None, "" and [] are falsy
Truthy(v) == v \notin {NULL, "", "[]"}

\* a date check that takes every string for a date
AnyDate(s) == TRUE

\* datetime.strptime(s, "%Y-%m-%d") succeeds
ValidDate(s) == s \in {"2026-02-01", "2026-02-02"}

\* datetime.strptime(s, "%Y-%m-%d").date(), as the DateTime column keeps it
ParsedDate(s) ==
    CASE s = "2026-02-01" -> "2026-02-01 00:00"
      [] OTHER -> "2026-02-02 00:00"

\* float(s) succeeds
IsNumber(s) == s \in {"0", "7.0", "42.50"}

\* float(s), as the Float column keeps it
Float(s) ==
    CASE s = "0" -> "0.0"
      [] s = "42.50" -> "42.5"
      [] OTHER -> s

\* the display values of ExpenseCategory the model uses
ExpenseCategory == {"Office Costs", "Travel Costs", "Other"}

\* ocr.py:391-430: the attributes each block of the merge sets
MergeVendor(p) ==
    IF Truthy(p.vendor) THEN {<<"vendor", p.vendor>>} ELSE {}
MergeDate(p) ==
    IF Truthy(p.date) /\ ValidDate(p.date)
    THEN {<<"date", ParsedDate(p.date)>>} ELSE {}
MergeTotal(p) ==
    IF p.total_amount # NULL
    THEN {<<"total_amount", Float(p.total_amount)>>} ELSE {}
MergeTax(p) ==
    IF p.tax_amount # NULL THEN {<<"tax_amount", Float(p.tax_amount)>>} ELSE {}
MergeItems(p) ==
    IF Truthy(p.items) THEN {<<"items", p.items>>} ELSE {}
MergeCategory(p) ==
    IF Truthy(p.category) /\ p.category \in ExpenseCategory
    THEN {<<"category", p.category>>} ELSE {}

\* float() raises ValueError inside the merge
TotalRaises(p) == p.total_amount # NULL /\ ~IsNumber(p.total_amount)
TaxRaises(p) == p.tax_amount # NULL /\ ~IsNumber(p.tax_amount)
MergeRaises(p) == TotalRaises(p) \/ TaxRaises(p)

\* the attributes set before the merge returns or raises
Merged(p) ==
    IF TotalRaises(p) THEN MergeVendor(p) \cup MergeDate(p)
    ELSE IF TaxRaises(p) THEN MergeVendor(p) \cup MergeDate(p) \cup MergeTotal(p)
    ELSE MergeVendor(p) \cup MergeDate(p) \cup MergeTotal(p)
         \cup MergeTax(p) \cup MergeItems(p) \cup MergeCategory(p)

\* extracted_fields: the parsed value of every field the merge wrote
ExtractedFields(p) == { <<w[1], p[w[1]]>> : w \in Merged(p) }

\* the row after the session flushes the attributes in sets
Flush(row, sets) ==
    [f \in DOMAIN row |->
        IF \E w \in sets : w[1] = f
        THEN (CHOOSE w \in sets : w[1] = f)[2]
        ELSE row[f]]

RunIds == 1..Len(runs)

\* ocr.py:364-367: status = PROCESSING; commit.  A background run starts
\* when the task added before it has ended.
RunStart(rid) ==
    /\ runs[rid].pc = "start"
    /\ runs[rid].after # 0 => runs[runs[rid].after].pc = "done"
    /\ receipts' = [receipts EXCEPT ![rid].status = PROCESSING]
    /\ runs' = [runs EXCEPT ![rid].pc = "log_processing",
                            ![rid].old_status = receipts[rid].status,
                            ![rid].image_at_start = receipts[rid].image_url]
    /\ UNCHANGED <<now, ledger, reqs, elog, audit, store, ureq, quota>>

\* ocr.py:368: log_status_change(old_status, receipt.status.value); the
\* status is read again after the commit
RunLogProcessing(rid) ==
    /\ runs[rid].pc = "log_processing"
    /\ \/ /\ audit' \in Logged(rid,
                                log_status_change(rid, runs[rid].old_status,
                                                  receipts[rid].status),
                                RunWriter(rid))
          /\ runs' = [runs EXCEPT ![rid].pc = "extract"]
       \/ /\ AuditRaises
          /\ runs' = [runs EXCEPT ![rid].pc = "fail",
                                  ![rid].failed_at = "audit"]
    /\ UNCHANGED <<now, ledger, reqs, elog, receipts, store, ureq, quota>>

\* an extraction step that does not persist the text
ExtractedNoText(row, text, preview) ==
    [row EXCEPT !.image_url = IF preview # NoBlob THEN preview ELSE @]

\* ocr.py:376-382: image_url = preview_url if there is one; ocr_raw_text =
\* raw_text; commit
Extracted(row, text, preview) ==
    [row EXCEPT !.image_url = IF preview # NoBlob THEN preview ELSE @,
                !.ocr_raw_text = text]

\* ocr.py:373-382 with extract_text_from_receipt, ocr.py:31-131
RunExtract(rid) ==
    LET r == receipts[rid]
        isPdf == r.image_url.ext = ".pdf"
        preview == PreviewOf(r.image_url)
        raise == [runs EXCEPT ![rid].pc = "fail", ![rid].failed_at = "extract"]
    IN /\ runs[rid].pc = "extract"
       /\ \/ /\ runs' = raise
             /\ UNCHANGED <<receipts, store>>
          \/ /\ isPdf
             /\ r.image_url \in store
             /\ store' = store \cup {preview}
             /\ runs' = raise
             /\ UNCHANGED receipts
          \/ LET text == RawText(r.image_url) IN
               /\ r.image_url \in store
               /\ store' = IF isPdf THEN store \cup {preview} ELSE store
               /\ receipts' = [receipts EXCEPT ![rid] =
                     Extracted(@, text, IF isPdf THEN preview ELSE NoBlob)]
               /\ runs' = [runs EXCEPT ![rid].pc = "merge",
                                       ![rid].raw_text = text]
       /\ UNCHANGED <<now, ledger, reqs, elog, audit, ureq, quota>>

\* ocr.py:386-435: parse, merge, status = PENDING; commit
RunMerge(rid) ==
    /\ runs[rid].pc = "merge"
    /\ \E p \in ParseResults(quota.parses) :
         IF MergeRaises(p)
         THEN /\ runs' = [runs EXCEPT ![rid].pc = "fail",
                                      ![rid].failed_at = "merge",
                                      ![rid].dirty = Merged(p),
                                      ![rid].parsed_data = p,
                                      ![rid].parsed = TRUE]
              /\ UNCHANGED receipts
         ELSE /\ receipts' = [receipts EXCEPT
                    ![rid] = [Flush(@, Merged(p)) EXCEPT !.status = PENDING]]
              /\ runs' = [runs EXCEPT ![rid].pc = "log_ocr",
                                      ![rid].old_status = receipts[rid].status,
                                      ![rid].extracted_fields = ExtractedFields(p),
                                      ![rid].parsed_data = p,
                                      ![rid].parsed = TRUE]
    /\ UNCHANGED <<now, ledger, reqs, elog, audit, store, ureq, quota>>

\* ocr.py:438
RunLogOcr(rid) ==
    /\ runs[rid].pc = "log_ocr"
    /\ \/ /\ audit' \in Logged(rid,
                                log_ocr_completed(rid, runs[rid].extracted_fields),
                                RunWriter(rid))
          /\ runs' = [runs EXCEPT ![rid].pc = "log_pending"]
       \/ /\ AuditRaises
          /\ runs' = [runs EXCEPT ![rid].pc = "fail",
                                  ![rid].failed_at = "audit"]
    /\ UNCHANGED <<now, ledger, reqs, elog, receipts, store, ureq, quota>>

\* ocr.py:439
RunLogPending(rid) ==
    /\ runs[rid].pc = "log_pending"
    /\ \/ /\ audit' \in Logged(rid,
                                log_status_change(rid, runs[rid].old_status,
                                                  receipts[rid].status),
                                RunWriter(rid))
          /\ runs' = [runs EXCEPT ![rid].pc = "dupcheck"]
       \/ /\ AuditRaises
          /\ runs' = [runs EXCEPT ![rid].pc = "fail",
                                  ![rid].failed_at = "audit"]
    /\ UNCHANGED <<now, ledger, reqs, elog, receipts, store, ureq, quota>>

\* a background run whose exception is not caught by its task: the tasks
\* added after it are not run
LeftUncaught(run, outcome) ==
    [NoRun EXCEPT !.pc = IF run.caller = "background" /\ outcome = "raised"
                         THEN "raised" ELSE "done",
                  !.caller = run.caller,
                  !.outcome = outcome, !.parsed = run.parsed,
                  !.after = run.after,
                  !.failed_at = run.failed_at, !.raw_text = run.raw_text,
                  !.image_at_start = run.image_at_start]

\* a run that has left process_receipt_ocr keeps only what the properties
\* read of it
Left(run, outcome) ==
    [NoRun EXCEPT !.pc = "done", !.caller = run.caller,
                  !.outcome = outcome, !.parsed = run.parsed,
                  !.after = run.after,
                  !.failed_at = run.failed_at, !.raw_text = run.raw_text,
                  !.image_at_start = run.image_at_start]

\* ocr.py:442-454: the duplicate check and the return
RunDupCheck(rid) ==
    /\ runs[rid].pc = "dupcheck"
    /\ \E res \in GuardedCheck(receipts, rid) :
          /\ receipts' = res.rows
          /\ runs' = [runs EXCEPT ![rid] =
                          [Left(@, "returned") EXCEPT !.detector = res.detector]]
    /\ UNCHANGED <<now, ledger, reqs, elog, audit, store, ureq, quota>>

\* a failure handler that gives up the image of the receipt
FailedRowLosesImage(row, dirty) ==
    [Flush(row, dirty) EXCEPT !.status = FAILED, !.image_url = NoBlob]

\* a failure handler that leaves the status as it is
FailedRowKeepsStatus(row, dirty) == Flush(row, dirty)

\* ocr.py:458-459: status = FAILED; commit, which flushes what the merge
\* had set
FailedRow(row, dirty) == [Flush(row, dirty) EXCEPT !.status = FAILED]

\* ocr.py:456-460: the failure handler
RunFail(rid) ==
    /\ runs[rid].pc = "fail"
    /\ receipts' = [receipts EXCEPT ![rid] = FailedRow(@, runs[rid].dirty)]
    /\ runs' = [runs EXCEPT ![rid].pc = "log_failed",
                            ![rid].old_status = receipts[rid].status,
                            ![rid].dirty = {}]
    /\ UNCHANGED <<now, ledger, reqs, elog, audit, store, ureq, quota>>

\* ocr.py:461-464: log_status_change and raise; an audit write that raises
\* here leaves the handler as the exception of the run
RunLogFailed(rid) ==
    /\ runs[rid].pc = "log_failed"
    /\ \/ audit' \in Logged(rid,
                             log_status_change(rid, runs[rid].old_status,
                                               receipts[rid].status),
                             RunWriter(rid))
       \/ AuditRaises
    /\ runs' = [runs EXCEPT ![rid] = Left(@, "raised")]
    /\ UNCHANGED <<now, ledger, reqs, elog, receipts, store, ureq, quota>>

(***************************************************************************)
(* The receipt API: api/v1/receipts.py.  One user request is in flight at  *)
(* a time; pipeline runs scheduled by the email front door and inbound     *)
(* emails run beside it.                                                   *)
(***************************************************************************)
\* the users that call the API
Callers == {u.id : u \in Users}

\* the files a client uploads: content type, extension of the filename, size
UploadFiles ==
    { [content_type |-> "image/jpeg", ext |-> ".jpg", size |-> MAX_FILE_SIZE],
      [content_type |-> "application/pdf", ext |-> ".pdf", size |-> MAX_FILE_SIZE],
      [content_type |-> "image/jpeg", ext |-> ".jpg", size |-> MAX_FILE_SIZE + 1],
      [content_type |-> "text/plain", ext |-> ".txt", size |-> MAX_FILE_SIZE] }

\* a type check that lets plain text through
TypesWithText ==
    {"image/jpeg", "image/jpg", "image/png", "application/pdf", "text/plain"}

\* storage.py:41
AllowedTypes == {"image/jpeg", "image/jpg", "image/png", "application/pdf"}

\* the bodies of PUT /receipts/{id} the model sends, by name of the set
EditPayloads(tag) ==
    IF tag = "none" THEN {}
    ELSE IF tag = "keys"
    THEN { ("vendor" :> "Acme"),
           ("total_amount" :> "0.0"),
           ("notes" :> "lunch"),
           ("vendor" :> "Acme" @@ "total_amount" :> "42.5"
              @@ "date" :> "2026-02-01 18:30") }
    ELSE { ("vendor" :> "Acme"),
           ("notes" :> "lunch"),
           ("currency" :> "GBP"),
           ("vendor" :> "Acme" @@ "total_amount" :> "42.5"
              @@ "date" :> "2026-02-01 18:30") }

\* the bodies of POST /receipts the model sends
CreateBodies ==
    { [vendor |-> NULL, total_amount |-> NULL, date |-> NULL],
      [vendor |-> "Acme", total_amount |-> "42.5", date |-> "2026-02-01 18:30"] }

\* the response of a finished request
Respond(op, user, rid, code, result) ==
    [IdleUreq EXCEPT !.op = op, !.user = user, !.rid = rid, !.code = code,
                     !.result = result]

\* a request of the API starts: none is in flight
Starts(kind, u) ==
    /\ ureq.pc = "idle"
    /\ quota[kind] > 0
    /\ u \in quota.callers
    /\ quota' = [quota EXCEPT ![kind] = @ - 1]

\* an exception that no handler catches ends the request in flight with
\* 500 Internal Server Error
Unhandled == ureq' = Respond(ureq.op, ureq.user, ureq.rid, "500", NULL)

\* filter(Receipt.id == rid, Receipt.user_id == current_user.id).first()
Owned(u, rid) == rid \in 1..Len(receipts) /\ receipts[rid].user_id = u

\* ... with Receipt.deleted_at.is_(None)
Live(u, rid) == Owned(u, rid) /\ receipts[rid].deleted_at = NULL

\* receipts.py:62-81: the limit check, the upload to the store, the row;
\* the request keeps the file it was given as its payload
UploadBegin(u, file) ==
    /\ Starts("uploads", u)
    /\ Len(receipts) < quota.receipts
    /\ \E can_create \in BOOLEAN, stored \in BOOLEAN :
         LET blob == NewBlob(store, file.ext)
             refuse(code) ==
                /\ ureq' = [Respond("upload", u, 0, code, NULL)
                              EXCEPT !.payload = file]
                /\ UNCHANGED <<receipts, runs, store, audit>>
         IN IF ~can_create THEN refuse("403")
            ELSE IF file.content_type \notin AllowedTypes THEN refuse("400")
            ELSE IF file.size > MAX_FILE_SIZE THEN refuse("400")
            ELSE IF ~stored THEN refuse("500")
            ELSE /\ store' = store \cup {blob}
                 /\ receipts' = Append(receipts, NewReceipt(u, blob, "upload"))
                 /\ runs' = Append(runs, NoRun)
                 /\ audit' = Append(audit, <<>>)
                 /\ ureq' = [IdleUreq EXCEPT !.pc = "upload_log", !.op = "upload",
                                             !.user = u, !.rid = Len(receipts) + 1,
                                             !.payload = file]
    /\ UNCHANGED <<now, ledger, reqs, elog>>

\* receipts.py:84: log_receipt_created; then the handler calls the pipeline
UploadLogCreated ==
    /\ ureq.pc = "upload_log"
    /\ \/ /\ audit' \in Logged(ureq.rid,
                                log_receipt_created(ureq.rid, ureq.user, "manual"),
                                "request")
          /\ runs' = [runs EXCEPT ![ureq.rid] = CalledRun]
          /\ ureq' = [ureq EXCEPT !.pc = "upload_run"]
       \/ /\ AuditRaises
          /\ Unhandled
          /\ UNCHANGED runs
    /\ UNCHANGED <<now, ledger, reqs, elog, receipts, store, quota>>

\* receipts.py:87-102: the pipeline returned, or it raised and the handler
\* sets FAILED itself; both answer with the receipt
UploadReturn ==
    /\ ureq.pc = "upload_run"
    /\ runs[ureq.rid].pc = "done"
    /\ receipts' = IF runs[ureq.rid].outcome = "raised"
                   THEN [receipts EXCEPT ![ureq.rid].status = FAILED]
                   ELSE receipts
    /\ ureq' = Respond("upload", ureq.user, ureq.rid, "200",
                       receipts'[ureq.rid].status)
    /\ UNCHANGED <<now, ledger, reqs, elog, audit, store, runs, quota>>

\* the image_url a client sends to create_receipt: any URL
ExternalImage == Blob(0, ".jpg")

\* receipts.py:106-157 create_receipt: the row, and no audit event
CreateReceipt(u, body, image) ==
    /\ Starts("creates", u)
    /\ Len(receipts) < quota.receipts
    /\ \E can_create \in BOOLEAN :
         IF ~can_create
         THEN /\ ureq' = Respond("create", u, 0, "403", NULL)
              /\ UNCHANGED <<receipts, runs, audit>>
         ELSE /\ receipts' = Append(receipts,
                    [NewReceipt(u, image, "manual") EXCEPT
                        !.vendor = body.vendor,
                        !.total_amount = body.total_amount,
                        !.date = body.date])
              /\ runs' = Append(runs, NoRun)
              /\ audit' = Append(audit, <<>>)
              /\ ureq' = Respond("create", u, Len(receipts) + 1, "201", PENDING)
    /\ UNCHANGED <<now, ledger, reqs, elog, store>>

\* receipts.py:411-419: old_values holds these fields only
TrackedFields ==
    {"vendor", "date", "total_amount", "tax_amount", "category", "notes",
     "is_business"}

\* str(v)
Str(v) == IF v = NULL THEN "None" ELSE v

\* old_values.get(field)
OldValue(old_values, field) ==
    IF field \in DOMAIN old_values THEN old_values[field] ELSE NULL

\* receipts.py:430-443: the events of the fields of the body, from field i
\* of the schema on
RECURSIVE FieldEvents(_, _, _, _, _)
FieldEvents(rid, u, payload, old_values, i) ==
    IF i > Len(FieldOrder) THEN <<>>
    ELSE LET field == FieldOrder[i]
             rest == FieldEvents(rid, u, payload, old_values, i + 1)
         IN IF /\ field \in DOMAIN payload
               /\ Str(OldValue(old_values, field)) # Str(payload[field])
            THEN <<log_field_update(rid, u, field, OldValue(old_values, field),
                                    payload[field])>> \o rest
            ELSE rest

\* receipts.py:398-427: the lookup, old_values, setattr and the commit
EditBegin(u, rid, payload) ==
    /\ Starts("ops", u)
    /\ payload \in EditPayloads(quota.edits)
    /\ IF ~Live(u, rid)
       THEN /\ ureq' = Respond("edit", u, rid, "404", NULL)
            /\ UNCHANGED receipts
       ELSE /\ receipts' = [receipts EXCEPT ![rid] =
                  [f \in DOMAIN @ |->
                      IF f \in DOMAIN payload THEN payload[f] ELSE @[f]]]
            /\ ureq' = [IdleUreq EXCEPT
                  !.pc = "edit_log", !.op = "edit", !.user = u, !.rid = rid,
                  !.payload = payload,
                  !.old_values = [f \in TrackedFields |-> receipts[rid][f]],
                  !.stored = [f \in EditableFields |-> receipts[rid][f]],
                  !.mark = Len(audit[rid])]
    /\ UNCHANGED <<now, ledger, reqs, elog, audit, store, runs>>

\* receipts.py:430-443: one field_updated event per field that differs
EditLog ==
    /\ ureq.pc = "edit_log"
    /\ LET events == FieldEvents(ureq.rid, ureq.user, ureq.payload,
                                 ureq.old_values, 1)
       IN \/ /\ audit' \in LoggedAll(ureq.rid, events, "request")
             /\ ureq' = [ureq EXCEPT !.pc = "edit_dup"]
          \/ /\ events # <<>>
             /\ AuditRaises
             /\ Unhandled
    /\ UNCHANGED <<now, ledger, reqs, elog, receipts, store, runs, quota>>

\* receipts.py:446-454: the duplicate check when vendor, total_amount or
\* date was in the body, and the response
EditReturn ==
    /\ ureq.pc = "edit_dup"
    /\ IF DOMAIN ureq.payload \cap {"vendor", "total_amount", "date"} # {}
       THEN \E res \in GuardedCheck(receipts, ureq.rid) :
               /\ receipts' = res.rows
               /\ ureq' = [Respond("edit", ureq.user, ureq.rid, "200",
                                   receipts[ureq.rid].status)
                              EXCEPT !.detector = res.detector]
       ELSE /\ UNCHANGED receipts
            /\ ureq' = Respond("edit", ureq.user, ureq.rid, "200",
                               receipts[ureq.rid].status)
    /\ UNCHANGED <<now, ledger, reqs, elog, audit, store, runs, quota>>

\* approve from PENDING and from FAILED
ApproveLegalOrFailed(status) == status \in {PENDING, FAILED}

\* receipts.py:488: approve is legal from PENDING only
ApproveLegal(status) == status = PENDING

\* receipts.py:476-499: the lookup, the status check, status = COMPLETED
ApproveBegin(u, rid) ==
    /\ Starts("ops", u)
    /\ IF ~Live(u, rid)
       THEN /\ ureq' = Respond("approve", u, rid, "404", NULL)
            /\ UNCHANGED receipts
       ELSE IF ~ApproveLegal(receipts[rid].status)
       THEN /\ ureq' = Respond("approve", u, rid, "400", NULL)
            /\ UNCHANGED receipts
       ELSE /\ receipts' = [receipts EXCEPT ![rid].status = COMPLETED]
            /\ ureq' = [IdleUreq EXCEPT
                  !.pc = "approve_log", !.op = "approve", !.user = u,
                  !.rid = rid, !.old_status = receipts[rid].status,
                  !.mark = Len(audit[rid])]
    /\ UNCHANGED <<now, ledger, reqs, elog, audit, store, runs>>

\* receipts.py:502
ApproveLog ==
    /\ ureq.pc = "approve_log"
    /\ \/ /\ audit' \in Logged(ureq.rid, log_approval(ureq.rid, ureq.user),
                                "request")
          /\ ureq' = [ureq EXCEPT !.pc = "approve_status"]
       \/ AuditRaises /\ Unhandled
    /\ UNCHANGED <<now, ledger, reqs, elog, receipts, store, runs, quota>>

\* receipts.py:503: the new status is read again from the row
ApproveLogStatus ==
    /\ ureq.pc = "approve_status"
    /\ \/ /\ audit' \in Logged(ureq.rid,
                                log_status_change(ureq.rid, ureq.old_status,
                                                  receipts[ureq.rid].status),
                                "request")
          /\ ureq' = [ureq EXCEPT !.pc = "approve_dup"]
       \/ AuditRaises /\ Unhandled
    /\ UNCHANGED <<now, ledger, reqs, elog, receipts, store, runs, quota>>

\* receipts.py:506-515
ApproveReturn ==
    /\ ureq.pc = "approve_dup"
    /\ \E res \in GuardedCheck(receipts, ureq.rid) :
          /\ receipts' = res.rows
          /\ ureq' = [Respond("approve", ureq.user, ureq.rid, "200",
                              receipts[ureq.rid].status)
                         EXCEPT !.detector = res.detector]
    /\ UNCHANGED <<now, ledger, reqs, elog, audit, store, runs, quota>>

\* receipts.py:539-551: the lookup (deleted rows included) and log_deletion
DeleteBegin(u, rid) ==
    /\ Starts("ops", u)
    /\ IF ~Owned(u, rid)
       THEN /\ ureq' = Respond("delete", u, rid, "404", NULL)
            /\ UNCHANGED audit
       ELSE \/ /\ audit' \in Logged(rid, log_deletion(rid, u), "request")
               /\ ureq' = [IdleUreq EXCEPT !.pc = "delete_commit",
                                           !.op = "delete",
                                           !.user = u, !.rid = rid]
            \/ /\ AuditRaises
               /\ ureq' = Respond("delete", u, rid, "500", NULL)
    /\ UNCHANGED <<now, ledger, reqs, elog, receipts, store, runs>>

\* receipts.py:554-560: deleted_at = utcnow(); commit
DeleteCommit ==
    /\ ureq.pc = "delete_commit"
    /\ receipts' = [receipts EXCEPT ![ureq.rid].deleted_at = NowString(now)]
    /\ ureq' = Respond("delete", ureq.user, ureq.rid, "204", NULL)
    /\ UNCHANGED <<now, ledger, reqs, elog, audit, store, runs, quota>>

\* receipts.py:777-792: the lookup of a deleted row, deleted_at = None
RestoreBegin(u, rid) ==
    /\ Starts("ops", u)
    /\ IF ~(Owned(u, rid) /\ receipts[rid].deleted_at # NULL)
       THEN /\ ureq' = Respond("restore", u, rid, "404", NULL)
            /\ UNCHANGED receipts
       ELSE /\ receipts' = [receipts EXCEPT ![rid].deleted_at = NULL]
            /\ ureq' = [IdleUreq EXCEPT !.pc = "restore_log", !.op = "restore",
                                        !.user = u, !.rid = rid]
    /\ UNCHANGED <<now, ledger, reqs, elog, audit, store, runs>>

\* receipts.py:795-805
RestoreLog ==
    /\ ureq.pc = "restore_log"
    /\ \/ /\ audit' \in Logged(ureq.rid, log_restored(ureq.rid, ureq.user),
                                "request")
          /\ ureq' = Respond("restore", ureq.user, ureq.rid, "200",
                             receipts[ureq.rid].status)
       \/ AuditRaises /\ Unhandled
    /\ UNCHANGED <<now, ledger, reqs, elog, receipts, store, runs, quota>>

\* receipts.py:564-601 dismiss_duplicate
DismissDuplicate(u, rid) ==
    /\ Starts("ops", u)
    /\ IF ~Live(u, rid)
       THEN /\ ureq' = Respond("dismiss", u, rid, "404", NULL)
            /\ UNCHANGED receipts
       ELSE /\ receipts' = [receipts EXCEPT ![rid].duplicate_dismissed = 1]
            /\ ureq' = Respond("dismiss", u, rid, "200", receipts[rid].status)
    /\ UNCHANGED <<now, ledger, reqs, elog, audit, store, runs>>

(***************************************************************************)
(* The receipt lifecycle: one inbound email with one attachment, one       *)
(* upload, one manual creation and a few requests on the receipts.         *)
(***************************************************************************)
Init ==
    /\ InitDb
    /\ quota = [NoQuota EXCEPT !.emails = 1, !.inbox = "one", !.uploads = 1,
                               !.creates = 1, !.ops = MaxOps,
                               !.edits = "few", !.callers = {1},
                               !.receipts = MaxReceipts]

RunStep(rid) ==
    \/ RunStart(rid)
    \/ RunLogProcessing(rid)
    \/ RunExtract(rid)
    \/ RunMerge(rid)
    \/ RunLogOcr(rid)
    \/ RunLogPending(rid)
    \/ RunDupCheck(rid)
    \/ RunFail(rid)
    \/ RunLogFailed(rid)

Next ==
    \/ \E s \in Slots, m \in Msgs : EmailLookup(s, m)
    \/ \E s \in Slots : EmailRecord(s)
    \/ \E s \in Slots : EmailProcess(s)
    \/ \E rid \in RunIds : RunStep(rid)
    \/ \E u \in Callers, file \in UploadFiles : UploadBegin(u, file)
    \/ UploadLogCreated
    \/ UploadReturn
    \/ \E u \in Callers, body \in CreateBodies : CreateReceipt(u, body, ExternalImage)
    \/ \E u \in Callers, rid \in 1..MaxReceipts, payload \in EditPayloads("few") :
         EditBegin(u, rid, payload)
    \/ EditLog
    \/ EditReturn
    \/ \E u \in Callers, rid \in 1..MaxReceipts : ApproveBegin(u, rid)
    \/ ApproveLog
    \/ ApproveLogStatus
    \/ ApproveReturn
    \/ \E u \in Callers, rid \in 1..MaxReceipts : DeleteBegin(u, rid)
    \/ DeleteCommit
    \/ \E u \in Callers, rid \in 1..MaxReceipts : RestoreBegin(u, rid)
    \/ RestoreLog
    \/ \E u \in Callers, rid \in 1..MaxReceipts : DismissDuplicate(u, rid)

Spec == Init /\ [][Next]_vars

(***************************************************************************)
(* Properties of the inbound-email front door.                             *)
(***************************************************************************)
EmailEntries == {i \in 1..Len(elog) : elog[i].kind = "email"}

\* submission j began after submission i had finished
Sequential(i, j) == i < j /\ i <= elog[j].began

\* no cleanup deleted ledger rows between the end of i and the lookup of j
NoPruneBetween(i, j) ==
    \A k \in 1..Len(elog) : (i < k /\ k <= elog[j].began) => elog[k].kind # "prune"

\* how many of the attachments of m carry the filename n
NameCount(m, n) == Cardinality({p \in 1..m.count : m.files[p] = n})

SameHeaders(a, b) ==
    a.to = b.to /\ a.from = b.from /\ a.subject = b.subject /\ a.count = b.count

\* the same filenames in any order
SameFilenames(a, b) == \A n \in FileOpts : NameCount(a, n) = NameCount(b, n)

\* the same filenames in any order, the attachments without a filename at
\* the same positions
SameNamedFilenames(a, b) ==
    /\ \A n \in FileOpts \ {""} : NameCount(a, n) = NameCount(b, n)
    /\ {p \in 1..a.count : a.files[p] = ""} = {p \in 1..b.count : b.files[p] = ""}

RejectedAsDuplicate(j) ==
    /\ elog[j].status = "duplicate"
    /\ ~elog[j].recorded
    /\ elog[j].created = {}
    /\ elog[j].stored = {}

\* C1 as stated: of two sequential submissions with the same recipient,
\* sender, subject, attachment count and attachment filenames in any order,
\* with no pruning in between, the second is answered 'duplicate' and
\* creates no receipt, no stored object and no ledger row.
C1_AnyOrderIsDuplicate ==
    \A i, j \in EmailEntries :
        (/\ Sequential(i, j)
         /\ NoPruneBetween(i, j)
         /\ SameHeaders(elog[i].msg, elog[j].msg)
         /\ SameFilenames(elog[i].msg, elog[j].msg))
        => RejectedAsDuplicate(j)

\* C1 as amended: the same, for filenames equal in any order where the
\* attachments without a filename sit at the same positions (such an
\* attachment is fingerprinted as file<position>).
C1_SameNamesIsDuplicate ==
    \A i, j \in EmailEntries :
        (/\ Sequential(i, j)
         /\ NoPruneBetween(i, j)
         /\ SameHeaders(elog[i].msg, elog[j].msg)
         /\ SameNamedFilenames(elog[i].msg, elog[j].msg))
        => RejectedAsDuplicate(j)

\* a re-delivery with its two named attachments swapped was answered
\* 'duplicate' after the first delivery had created receipts
C1_Witness ==
    \E i, j \in EmailEntries :
        /\ Sequential(i, j)
        /\ SameHeaders(elog[i].msg, elog[j].msg)
        /\ SameNamedFilenames(elog[i].msg, elog[j].msg)
        /\ elog[i].msg.files # elog[j].msg.files
        /\ elog[i].status = "success"
        /\ elog[j].status = "duplicate"

\* submissions whose handling overlapped in time
Concurrent(i, j) == i < j /\ elog[j].began < i

\* C2: the ledger never holds two rows with the same fingerprint, and of
\* two concurrent submissions with the same fingerprint at most one gets
\* past the ledger insert to create receipts.
C2_AtMostOneProceeds ==
    /\ \A r1, r2 \in ledger : r1.hash = r2.hash => r1 = r2
    /\ \A i, j \in EmailEntries :
         (Concurrent(i, j) /\ EmailHash(elog[i].msg) = EmailHash(elog[j].msg))
         => ~(elog[i].recorded /\ elog[j].recorded)
    /\ \A i \in EmailEntries : \A s \in Slots :
         (/\ reqs[s].pc = "process"
          /\ reqs[s].began < i
          /\ EmailHash(elog[i].msg) = EmailHash(reqs[s].msg))
         => ~elog[i].recorded
    /\ \A s, t \in Slots :
         (/\ s # t
          /\ reqs[s].pc = "process"
          /\ reqs[t].pc = "process")
         => EmailHash(reqs[s].msg) # EmailHash(reqs[t].msg)

\* two deliveries of one message raced: both passed the lookup, one created
\* receipts and the other's insert was refused
C2_Witness ==
    \E i, j \in EmailEntries :
        /\ i # j
        /\ (Concurrent(i, j) \/ Concurrent(j, i))
        /\ elog[i].msg = elog[j].msg
        /\ elog[i].status = "success"
        /\ elog[j].status = "exception"

\* C3: a submission whose fingerprint is already recorded when it tries to
\* claim it ends with the 'duplicate' result, never with an error outcome.
C3_PresentIsDuplicate ==
    \A i \in EmailEntries : elog[i].present => elog[i].status = "duplicate"

(***************************************************************************)
(* Properties of the receipt lifecycle.                                    *)
(***************************************************************************)
ReceiptIds == 1..Len(receipts)

\* this step is the first step of an approve request on receipt rid
ApproveAnswered(rid) ==
    /\ ureq.pc = "idle"
    /\ quota'.ops < quota.ops
    /\ ureq'.op = "approve"
    /\ ureq'.rid = rid

\* C4: the status of every receipt is one of PENDING, PROCESSING, COMPLETED
\* and FAILED; an approve that succeeds found a live receipt in PENDING and
\* made it COMPLETED; an approve on a live receipt in PROCESSING, COMPLETED
\* or FAILED is answered 400 and leaves all receipts and all audit rows as
\* they were.
C4_ApproveOnlyFromPending ==
    /\ [](\A rid \in ReceiptIds : receipts[rid].status \in ReceiptStatus)
    /\ [][\A rid \in ReceiptIds :
            /\ (ApproveAnswered(rid) /\ ureq'.pc # "idle")
               => /\ receipts[rid].deleted_at = NULL
                  /\ receipts[rid].status = PENDING
                  /\ receipts'[rid].status = COMPLETED
            /\ (/\ ApproveAnswered(rid)
                /\ receipts[rid].deleted_at = NULL
                /\ receipts[rid].user_id = ureq'.user
                /\ receipts[rid].status \in {PROCESSING, COMPLETED, FAILED})
               => /\ ureq'.pc = "idle"
                  /\ ureq'.code = "400"
                  /\ receipts' = receipts
                  /\ audit' = audit]_vars

\* an approve was answered 400 on a receipt that an earlier approve had
\* made COMPLETED
C4_Witness ==
    /\ ureq.pc = "idle"
    /\ ureq.op = "approve"
    /\ ureq.code = "400"
    /\ receipts[ureq.rid].status = COMPLETED
    /\ \E k \in 1..Len(audit[ureq.rid]) :
          audit[ureq.rid][k].event_type = "approved"

\* C5: a receipt made by the upload or the email front door that is
\* COMPLETED has had a pipeline run reach the parsing step.
C5_CompletedWasParsed ==
    \A rid \in ReceiptIds :
        (/\ receipts[rid].source \in {"upload", "email"}
         /\ receipts[rid].status = COMPLETED)
        => runs[rid].parsed

\* the run of rid failed after its text extraction had succeeded
FailedAfterExtraction(rid) ==
    /\ runs[rid].pc \in {"log_failed", "done"}
    /\ runs[rid].failed_at = "merge"

\* C6 as stated: after a run failed past the text extraction, the receipt
\* is FAILED, its raw text is the extracted text and its image reference is
\* the one it had when the run started, for raster and PDF sources.
C6_FailedKeepsStartImage ==
    \A rid \in ReceiptIds :
        FailedAfterExtraction(rid)
        => /\ receipts[rid].status = FAILED
           /\ receipts[rid].ocr_raw_text = runs[rid].raw_text
           /\ receipts[rid].image_url = runs[rid].image_at_start

\* C6 as amended: after a run failed past the text extraction, the receipt
\* is FAILED, its raw text is the extracted text, and its image reference
\* is the one the extraction step left: the reference at the start of the
\* run for a raster source, the generated preview for a PDF source, whose
\* original stays in the store.
C6_FailedKeepsTextAndImage ==
    \A rid \in ReceiptIds :
        FailedAfterExtraction(rid)
        => /\ receipts[rid].status = FAILED
           /\ receipts[rid].ocr_raw_text = runs[rid].raw_text
           /\ runs[rid].raw_text = RawText(runs[rid].image_at_start)
           /\ receipts[rid].image_url =
                 IF runs[rid].image_at_start.ext = ".pdf"
                 THEN PreviewOf(runs[rid].image_at_start)
                 ELSE runs[rid].image_at_start
           /\ runs[rid].image_at_start \in store
           /\ receipts[rid].image_url \in store

\* the run of a PDF receipt raised in the merge and has ended
C6_Witness ==
    \E rid \in ReceiptIds :
        /\ runs[rid].pc = "done"
        /\ runs[rid].failed_at = "merge"
        /\ runs[rid].image_at_start.ext = ".pdf"
        /\ receipts[rid].status = FAILED

\* the step of the run of rid from pc a to pc b
RunMoves(rid, a, b) == runs[rid].pc = a /\ runs'[rid].pc = b

\* C7: the failure handler of a run sets the status FAILED, then appends
\* one status_changed event with the new value 'failed' and nothing else,
\* and raises; the upload whose run raised is answered 200 with the receipt
\* in FAILED, and the row and its stored image exist.
C7_FailedRunAndUpload ==
    /\ [][\A rid \in RunIds :
            /\ RunMoves(rid, "fail", "log_failed")
               => /\ receipts'[rid].status = FAILED
                  /\ audit' = audit
            /\ RunMoves(rid, "log_failed", "done")
               => /\ runs'[rid].outcome = "raised"
                  /\ receipts'[rid].status = FAILED
                  /\ Len(audit'[rid]) = Len(audit[rid]) + 1
                  /\ SubSeq(audit'[rid], 1, Len(audit[rid])) = audit[rid]
                  /\ audit'[rid][Len(audit'[rid])].event_type = "status_changed"
                  /\ audit'[rid][Len(audit'[rid])].new_value = FAILED]_vars
    /\ [](\A rid \in ReceiptIds :
            runs[rid].outcome = "raised" => receipts[rid].status = FAILED)
    /\ []((/\ ureq.pc = "idle"
           /\ ureq.op = "upload"
           /\ ureq.rid # 0
           /\ runs[ureq.rid].outcome = "raised")
          => /\ ureq.code = "200"
             /\ ureq.result = FAILED
             /\ ureq.rid \in ReceiptIds
             /\ receipts[ureq.rid].image_url \in store)

\* an upload whose text extraction raised was answered with the receipt
C7_Witness ==
    /\ ureq.pc = "idle"
    /\ ureq.op = "upload"
    /\ ureq.rid # 0
    /\ runs[ureq.rid].outcome = "raised"
    /\ runs[ureq.rid].failed_at = "extract"
    /\ ureq.result = FAILED

\* C8: a live receipt in FAILED with nothing in flight and requests left to
\* send can be re-submitted: some step takes it to PROCESSING.
C8_FailedCanBeResubmitted ==
    \A rid \in ReceiptIds :
        (/\ receipts[rid].status = FAILED
         /\ receipts[rid].deleted_at = NULL
         /\ runs[rid].pc \in {"none", "done"}
         /\ ureq.pc = "idle"
         /\ quota.ops > 0)
        => ENABLED (Next /\ receipts'[rid].status = PROCESSING)

\* the field_updated events for field f that the edit in flight appended
EditEvents(f) ==
    { k \in (ureq.mark + 1)..Len(audit[ureq.rid]) :
        /\ audit[ureq.rid][k].event_type = "field_updated"
        /\ audit[ureq.rid][k].field_name = f }

\* C9: when an edit has logged its changes, every field of its body whose
\* stringified value differs from the stringified stored value has exactly
\* one field_updated event, and every other field has none.
C9_OneEventPerChangedField ==
    ureq.pc = "edit_dup"
    => \A f \in EditableFields :
         Cardinality(EditEvents(f)) =
            IF f \in DOMAIN ureq.payload
               /\ Str(ureq.payload[f]) # Str(ureq.stored[f])
            THEN 1 ELSE 0

\* C10: every receipt whose front door has finished has exactly one
\* 'created' event, and it is the first event of its history.
C10_OneCreatedEventFirst ==
    \A rid \in ReceiptIds :
        ~(ureq.pc = "upload_log" /\ ureq.rid = rid)
        => /\ Cardinality({k \in 1..Len(audit[rid]) :
                              audit[rid][k].event_type = "created"}) = 1
           /\ audit[rid][1].event_type = "created"


(***************************************************************************)
(* The audit log as a history.                                             *)
(***************************************************************************)
IsPrefix(s, t) == Len(s) <= Len(t) /\ SubSeq(t, 1, Len(s)) = s

HasEvent(rid, type) ==
    \E k \in 1..Len(audit[rid]) : audit[rid][k].event_type = type

\* C11: the audit log is append-only: over every step of upload, email
\* ingestion, pipeline run, edit, approve, dismiss-duplicate, delete and
\* restore, each receipt's history before the step is a prefix of its
\* history after it, and no receipt's history disappears.
C11_AuditAppendOnly ==
    [][/\ Len(audit) <= Len(audit')
       /\ \A rid \in 1..Len(audit) : IsPrefix(audit[rid], audit'[rid])]_vars

\* C11 witness: a history that user requests and the pipeline both
\* appended to: created, pipeline events, approval
C11_Witness ==
    \E rid \in ReceiptIds :
        /\ Len(audit[rid]) >= 5
        /\ HasEvent(rid, "created")
        /\ HasEvent(rid, "ocr_completed")
        /\ HasEvent(rid, "approved")

(***************************************************************************)
(* Reading the history: one emailed receipt whose background run and the   *)
(* user's approve and delete requests are served by different processes.   *)
(***************************************************************************)
\* a precedes b in ORDER BY timestamp ASC
Earlier(a, b) ==
    \/ a.timestamp.day < b.timestamp.day
    \/ /\ a.timestamp.day = b.timestamp.day
       /\ a.timestamp.us < b.timestamp.us

\* the orders in which a database may return the rows S of h under ORDER BY
\* timestamp ASC: rows of equal timestamp come in any order
RECURSIVE OrderedByTimestamp(_, _)
OrderedByTimestamp(h, S) ==
    IF S = {} THEN {<<>>}
    ELSE UNION { { <<h[k]>> \o t : t \in OrderedByTimestamp(h, S \ {k}) } :
                 k \in {i \in S : \A j \in S : ~Earlier(h[j], h[i])} }

\* audit.py:205-221 get_receipt_history: filter by receipt_id, ORDER BY
\* timestamp ASC; the results the query may give
GetReceiptHistory(rid) ==
    OrderedByTimestamp(audit[rid], 1..Len(audit[rid]))

InitHistory ==
    /\ InitDb
    /\ quota = [NoQuota EXCEPT !.emails = 1, !.inbox = "one", !.ops = MaxOps,
                               !.callers = {1}, !.receipts = MaxReceipts,
                               !.skew = TRUE]

NextHistory ==
    \/ \E s \in Slots, m \in Msgs : EmailLookup(s, m)
    \/ \E s \in Slots : EmailRecord(s)
    \/ \E s \in Slots : EmailProcess(s)
    \/ \E rid \in RunIds : RunStep(rid)
    \/ \E u \in Callers, rid \in 1..MaxReceipts : ApproveBegin(u, rid)
    \/ ApproveLog
    \/ ApproveLogStatus
    \/ ApproveReturn
    \/ \E u \in Callers, rid \in 1..MaxReceipts : DeleteBegin(u, rid)
    \/ DeleteCommit
    \/ \E u \in Callers, rid \in 1..MaxReceipts : RestoreBegin(u, rid)
    \/ RestoreLog

SpecHistory == InitHistory /\ [][NextHistory]_vars

\* C12: get_history(receipt) returns the receipt's events, each once, in
\* the order in which they were appended, also when events carry the same
\* timestamp or were written by a user request and a background run: the
\* only result the query can give is the history as appended.
C12_HistoryInAppendOrder ==
    \A rid \in ReceiptIds : GetReceiptHistory(rid) = {audit[rid]}

\* the rows the request in flight has written since it began
RequestEvents ==
    SelectSeq(SubSeq(audit[ureq.rid], ureq.mark + 1, Len(audit[ureq.rid])),
              LAMBDA e : e.writer = "request")

\* C13: a successful approve moves the receipt from PENDING to COMPLETED and
\* appends exactly two events, an approval event followed by a
\* status-changed event from pending to completed, and get_history returns
\* them in that order after all earlier events.
C13_ApproveAppendsTwoEvents ==
    ureq.pc = "approve_dup"
        => /\ Len(RequestEvents) = 2
           /\ RequestEvents[1].event_type = "approved"
           /\ RequestEvents[2].event_type = "status_changed"
           /\ RequestEvents[2].old_value = PENDING
           /\ RequestEvents[2].new_value = COMPLETED
           /\ \A h \in GetReceiptHistory(ureq.rid) :
                 IsPrefix(SubSeq(audit[ureq.rid], 1, ureq.mark), h)

(***************************************************************************)
(* Failures of the audit log and of the duplicate detector: one upload     *)
(* with its pipeline run and a few requests on the receipt, in an          *)
(* environment where audit writes and the detector can raise.              *)
(***************************************************************************)
InitFaults ==
    /\ InitDb
    /\ quota = [NoQuota EXCEPT !.uploads = 1, !.ops = MaxOps, !.edits = "few",
                               !.callers = {1}, !.receipts = MaxReceipts,
                               !.auditfail = TRUE, !.dupfail = TRUE]

NextFaults ==
    \/ \E u \in Callers, file \in UploadFiles : UploadBegin(u, file)
    \/ UploadLogCreated
    \/ UploadReturn
    \/ \E rid \in RunIds : RunStep(rid)
    \/ \E u \in Callers, rid \in 1..MaxReceipts, payload \in EditPayloads("few") :
         EditBegin(u, rid, payload)
    \/ EditLog
    \/ EditReturn
    \/ \E u \in Callers, rid \in 1..MaxReceipts : ApproveBegin(u, rid)
    \/ ApproveLog
    \/ ApproveLogStatus
    \/ ApproveReturn
    \/ \E u \in Callers, rid \in 1..MaxReceipts : DeleteBegin(u, rid)
    \/ DeleteCommit
    \/ \E u \in Callers, rid \in 1..MaxReceipts : RestoreBegin(u, rid)
    \/ RestoreLog

SpecFaults == InitFaults /\ [][NextFaults]_vars

\* C14: an audit write that fails during upload, a pipeline run, approve,
\* edit, delete or restore does not fail the operation: no request on a
\* receipt ends in a server error, and no pipeline run takes its failure
\* path because of an audit write.
C14_AuditFailureIsSwallowed ==
    /\ ureq.code = "500" => ureq.rid = 0
    /\ \A rid \in ReceiptIds : runs[rid].failed_at # "audit"

MaxDupReceipts == 3
MaxDupOps == 2

\* the bodies of POST /receipts sent here: the fields the detector compares
DupBodies ==
    { [vendor |-> "Acme", total_amount |-> "42.5", date |-> "2026-02-01 18:30"],
      [vendor |-> "Acme", total_amount |-> "42.5", date |-> "2026-02-01 00:00"],
      [vendor |-> "Acme", total_amount |-> "42.51", date |-> "2026-02-01 18:30"],
      [vendor |-> "Acme", total_amount |-> "42.5", date |-> "2026-02-02 00:00"],
      [vendor |-> "Acme", total_amount |-> "0.0", date |-> "2026-02-01 18:30"],
      [vendor |-> NULL, total_amount |-> "42.5", date |-> "2026-02-01 18:30"] }

\* who sends which body: the first user any of them, the second user one
DupCreates ==
    { <<1, b>> : b \in DupBodies } \cup
    { <<2, [vendor |-> "Acme", total_amount |-> "42.5",
            date |-> "2026-02-01 18:30"]>> }

InitDup ==
    /\ InitDb
    /\ quota = [NoQuota EXCEPT !.uploads = 1, !.creates = MaxDupReceipts - 1,
                               !.ops = MaxDupOps,
                               !.edits = "keys", !.callers = Callers,
                               !.receipts = MaxDupReceipts]

NextDup ==
    \/ \E file \in UploadFiles : UploadBegin(1, file)
    \/ UploadLogCreated
    \/ UploadReturn
    \/ \E rid \in RunIds : RunStep(rid)
    \/ \E c \in DupCreates : CreateReceipt(c[1], c[2], ExternalImage)
    \/ \E rid \in 1..MaxDupReceipts, payload \in EditPayloads("keys") :
         EditBegin(1, rid, payload)
    \/ EditLog
    \/ EditReturn
    \/ \E rid \in 1..MaxDupReceipts : ApproveBegin(1, rid)
    \/ ApproveLog
    \/ ApproveLogStatus
    \/ ApproveReturn
    \/ \E rid \in 1..MaxDupReceipts : DeleteBegin(1, rid)
    \/ DeleteCommit
    \/ \E rid \in 1..MaxDupReceipts : RestoreBegin(1, rid)
    \/ RestoreLog

SpecDup == InitDup /\ [][NextDup]_vars

\* the receipts that match receipt rid: another receipt of the same user,
\* not soft-deleted, with the same vendor, total amount and calendar date
Matches(rows, rid) ==
    { k \in 1..Len(rows) :
        /\ k # rid
        /\ rows[k].user_id = rows[rid].user_id
        /\ rows[k].deleted_at = NULL
        /\ rows[k].vendor = rows[rid].vendor
        /\ rows[k].total_amount = rows[rid].total_amount
        /\ rows[k].date # NULL
        /\ CalendarDate(rows[k].date) = CalendarDate(rows[rid].date) }

\* vendor, total amount and date of the receipt are all set
AllSet(r) == r.vendor # NULL /\ r.total_amount # NULL /\ r.date # NULL

\* this step is a run of the detector on receipt rid that returns: at the
\* end of an approve or an edit, or at the end of a pipeline run
DetectorStep(rid) ==
    \/ /\ ureq.pc \in {"approve_dup", "edit_dup"}
       /\ ureq.rid = rid
       /\ ureq'.detector = "returned"
    \/ /\ runs[rid].pc = "dupcheck"
       /\ runs'[rid].detector = "returned"

\* C16: for a live receipt r with vendor, total amount and date all set
\* (any amount, 0 included), check(r) flags r if and only if another live
\* receipt of the same user has the same vendor, total amount and calendar
\* date, and the stored reference is such a receipt; if one of the three
\* fields is missing, check(r) changes nothing.
C16_FlagsExactlyTheMatches ==
    [][\A rid \in ReceiptIds :
         DetectorStep(rid) =>
           LET m == Matches(receipts, rid)
           IN IF AllSet(receipts[rid]) /\ m # {}
              THEN \E k \in m :
                      receipts' = [receipts EXCEPT ![rid].duplicate_suspect = 1,
                                                   ![rid].duplicate_of_id = k]
              ELSE receipts' = receipts]_vars

\* the receipt the step is about: that of the request in flight or of the
\* pipeline run that moves
ActsOn(rid) ==
    \/ ureq.rid = rid
    \/ ureq'.rid = rid
    \/ runs'[rid] # runs[rid]

\* C17: check(r) changes only r's suspect flag and r's duplicate reference,
\* never a field of the matched receipt or of any other receipt; and no
\* step of a pipeline run, edit, approve, delete or restore on r, nor a
\* creation, changes a field of a different receipt.
C17_OnlyOwnReceiptChanges ==
    [][/\ Len(receipts') >= Len(receipts)
       /\ \A rid \in ReceiptIds :
            /\ DetectorStep(rid) =>
                  receipts' = [receipts EXCEPT
                      ![rid].duplicate_suspect = receipts'[rid].duplicate_suspect,
                      ![rid].duplicate_of_id = receipts'[rid].duplicate_of_id]
            /\ receipts'[rid] # receipts[rid] => ActsOn(rid)
            /\ receipts'[rid] # receipts[rid] =>
                  \A k \in ReceiptIds \ {rid} : receipts'[k] = receipts[k]]_vars

\* C17 witness: the detector has just flagged a receipt and stored the
\* reference to its match, and the matched receipt carries no flag
C17_Witness ==
    \E rid \in ReceiptIds :
        /\ ureq.pc = "idle" /\ ureq.rid = rid /\ ureq.detector = "returned"
        /\ receipts[rid].duplicate_suspect = 1
        /\ receipts[rid].duplicate_of_id \in Matches(receipts, rid)
        /\ receipts[receipts[rid].duplicate_of_id].duplicate_suspect = 0
        /\ Len(receipts) = MaxDupReceipts

\* C18: the detector is idempotent: for every receipt of every reachable
\* table, running check(r) again on a table that check(r) has left gives
\* the same result and the same possible tables as running it once; on a
\* flagged r that still has a live match the flag stays set and the
\* reference is a receipt that matches now.
C18_DetectorIdempotent ==
    \A rid \in ReceiptIds :
        \A t \in CheckForDuplicates(receipts, rid) :
            /\ DetectorResult(t, rid) = DetectorResult(receipts, rid)
            /\ CheckForDuplicates(t, rid) = CheckForDuplicates(receipts, rid)
            /\ (t[rid].duplicate_suspect = 1 /\ Matches(t, rid) # {})
                 => \A t2 \in CheckForDuplicates(t, rid) :
                       /\ t2[rid].duplicate_suspect = 1
                       /\ t2[rid].duplicate_of_id \in Matches(t2, rid)

\* C19: a soft-deleted receipt is never duplicate-checked: no step performs
\* the detector's matching on, or writes the suspect flag or the duplicate
\* reference of, a receipt whose tombstone is set at that moment, also when
\* a background pipeline run ends after the user deleted the receipt.
C19_DeletedNeverChecked ==
    [][\A rid \in ReceiptIds :
         /\ (DetectorStep(rid) /\ DupCheckable(receipts[rid]))
               => receipts[rid].deleted_at = NULL
         /\ (\/ receipts'[rid].duplicate_suspect # receipts[rid].duplicate_suspect
             \/ receipts'[rid].duplicate_of_id # receipts[rid].duplicate_of_id)
               => receipts[rid].deleted_at = NULL]_vars

(***************************************************************************)
(* Reading the receipts: the listing and the analytics.                    *)
(***************************************************************************)
\* receipts.py:196-203 list_receipts: the ids of the first page, for a page
\* that holds all receipts of the user
ListReceipts(u) ==
    { k \in 1..Len(receipts) :
        receipts[k].user_id = u /\ receipts[k].deleted_at = NULL }

\* analytics.py:26 get_ai_insights: all_receipts, the rows it counts and sums
InsightsReceipts(u) ==
    { k \in 1..Len(receipts) : receipts[k].user_id = u }

\* the table with the tombstone of receipt k cleared
Undeleted(rows, k) == [rows EXCEPT ![k].deleted_at = NULL]

\* C20: after any sequence of delete and restore operations a receipt is
\* returned by the listing, counted by the analytics and considered as a
\* candidate in duplicate scans if and only if its tombstone is null.
C20_LiveIffListedCountedScanned ==
    \A rid \in ReceiptIds :
        LET u == receipts[rid].user_id
            live == receipts[rid].deleted_at = NULL
        IN /\ rid \in ListReceipts(u) <=> live
           /\ rid \in InsightsReceipts(u) <=> live
           /\ \A r \in ReceiptIds \ {rid} :
                 rid \in PotentialDuplicates(Undeleted(receipts, rid), r)
                    => (rid \in PotentialDuplicates(receipts, r) <=> live)

(***************************************************************************)
(* Soft delete and restore.                                                *)
(***************************************************************************)
\* this step is the first of a request op on receipt rid
RequestBegins(op, rid) ==
    /\ ureq.pc = "idle"
    /\ quota'.ops # quota.ops
    /\ ureq'.op = op
    /\ ureq'.rid = rid

\* this step belongs to a restore request on receipt rid
RestoreStep(rid) ==
    \/ RequestBegins("restore", rid)
    \/ /\ ureq.op = "restore" /\ ureq.rid = rid /\ ureq.pc = "restore_log"
       /\ ureq'.pc # ureq.pc

\* C21: while the tombstone of a receipt is set, restore is the only
\* operation that changes it: edit, approve, dismiss-duplicate, a second
\* delete and a pipeline run leave the row (status, fields, tombstone
\* timestamp) and the audit history of a soft-deleted receipt unchanged.
C21_OnlyRestoreChangesDeleted ==
    [][\A rid \in ReceiptIds :
         (receipts[rid].deleted_at # NULL /\ ~RestoreStep(rid))
            => /\ receipts'[rid] = receipts[rid]
               /\ audit'[rid] = audit[rid]]_vars

Rejected(m) ==
    LET found == {u \in Users : u.unique_receipt_email = RecipientEmail(m.to)}
    IN \/ found = {}
       \/ \E u \in found : ~u.is_active
       \/ m.count = 0

\* C24: an inbound email whose recipient maps to no user, whose user is
\* inactive or that declares zero attachments is answered with the
\* structured result 'error' ('duplicate' when the ledger lookup found its
\* fingerprint), never with an exception, and creates no receipt, stores
\* no object and schedules no pipeline run.
C24_RejectedIsStructuredError ==
    \A i \in EmailEntries :
        Rejected(elog[i].msg)
          => /\ elog[i].status \in {"error", "duplicate"}
             /\ elog[i].status = "duplicate" => elog[i].present
             /\ elog[i].created = {}
             /\ elog[i].stored = {}
             /\ \A rid \in 1..Len(receipts) : receipts[rid].user_id = 1

\* the front door with a third delivery, so that a message can come again
\* after the cleanup has deleted its ledger row
InitLedger ==
    /\ InitDb
    /\ quota = [NoQuota EXCEPT !.emails = MaxLedgerEmails,
                             !.inbox = "redeliver",
                             !.receipts = MaxLedgerEmails]

SpecLedger == InitLedger /\ [][NextEmail]_vars

\* the insert of the ledger row creates nothing else, and the request that
\* goes on to the recipient lookup, the checks and the attachments finds
\* its row in the ledger and leaves it there
LedgerFirst ==
    \A s \in Slots :
        LET h == EmailHash(reqs[s].msg)
        IN /\ (reqs[s].pc = "record" /\ reqs'[s].pc # "record")
                => /\ \E row \in ledger' : row.hash = h
                   /\ receipts' = receipts /\ store' = store /\ runs' = runs
           /\ (reqs[s].pc = "process" /\ reqs'[s].pc # "process")
                => /\ LedgerHas(h)
                   /\ \E row \in ledger' : row.hash = h

SameMessage(i, j) == EmailHash(elog[i].msg) = EmailHash(elog[j].msg)

\* C25 as stated: the ledger row of a new fingerprint is committed before
\* the recipient lookup, the checks and any receipt creation, so a message
\* that passed the ledger lookup is recorded whatever happens to it then,
\* and an identical re-delivery is answered 'duplicate' and creates no
\* receipt.
C25_RedeliveryIsDuplicate ==
    /\ [][LedgerFirst]_vars
    /\ [](\A i, j \in EmailEntries :
            (Sequential(i, j) /\ SameMessage(i, j)) => RejectedAsDuplicate(j))

\* C25 as amended: the same, for a re-delivery that comes before a cleanup
\* has deleted ledger rows.
C25_RedeliveryBeforePruning ==
    /\ [][LedgerFirst]_vars
    /\ [](\A i, j \in EmailEntries :
            (Sequential(i, j) /\ SameMessage(i, j) /\ NoPruneBetween(i, j))
               => RejectedAsDuplicate(j))

\* C25 witness: a message to the active user lost its only attachment and
\* was answered 'error'; its ledger row was there, and the same message
\* sent again was answered 'duplicate'
C25_Witness ==
    \E i, j \in EmailEntries :
        /\ Sequential(i, j) /\ SameMessage(i, j)
        /\ ~Rejected(elog[i].msg)
        /\ elog[i].status = "error" /\ elog[i].recorded
        /\ elog[j].status = "duplicate" /\ elog[j].created = {}
        /\ receipts = <<>>


\* the front door with the emails to the active user that carry the most
\* attachments, the last one an image; what happened to each attachment is
\* kept with the finished submission
InitAttachments ==
    /\ InitDb
    /\ quota = [NoQuota EXCEPT !.emails = MaxEmails, !.inbox = "attachments",
                             !.receipts = MaxEmails * MaxAttach]

SpecAttachments == InitAttachments /\ [][NextEmail]_vars

\* the attachments of a finished submission that have a supported
\* extension, are within the size ceiling and were stored and committed
\* without a failure
GoodAttachments(e) ==
    {i \in 1..e.msg.count :
        /\ FileExtWithDot(e.msg.files[i]) \in SUPPORTED_EXTENSIONS
        /\ e.env[i].size <= MAX_FILE_SIZE
        /\ e.env[i].outcome = "ok"}

\* the submissions that got as far as the attachment loop
Accepted == {i \in EmailEntries : elog[i].env # <<>>}

InitBackground ==
    /\ InitDb
    /\ quota = [NoQuota EXCEPT !.emails = 1, !.inbox = "attachments",
                             !.receipts = MaxAttach]

NextBackground ==
    \/ \E s \in Slots, m \in Msgs : EmailLookup(s, m)
    \/ \E s \in Slots : EmailRecord(s)
    \/ \E s \in Slots : EmailProcess(s)
    \/ \E rid \in RunIds : RunStep(rid)

SpecBackground == InitBackground /\ [][NextBackground]_vars

\* the run has left process_receipt_ocr
RunHasEnded(rid) == runs[rid].outcome # NULL

\* this step is the response of an inbound-email request
EmailResponds ==
    \E s \in Slots : reqs[s].pc = "process" /\ reqs'[s].pc = "idle"

\* C27: the inbound-email endpoint answers before any pipeline step: in the
\* state of the response each receipt it created is PENDING, has no audit
\* event and has its run waiting as a background task; a run takes its
\* first step only after the response; a step of a run changes neither the
\* responses nor the receipt, the history or the run of another receipt;
\* and the run of the next receipt can start as soon as the run before it
\* has ended, failed or not.
C27_ResponseBeforePipeline ==
    /\ [][/\ EmailResponds
             => \A rid \in elog'[Len(elog')].created :
                  /\ receipts'[rid].status = PENDING
                  /\ audit'[rid] = <<>>
                  /\ runs'[rid].pc = "start"
                  /\ runs'[rid].caller = "background"
          /\ \A rid \in RunIds :
               runs'[rid] # runs[rid]
                 => /\ elog' = elog
                    /\ \A other \in RunIds \ {rid} :
                         /\ receipts'[other] = receipts[other]
                         /\ audit'[other] = audit[other]
                         /\ runs'[other] = runs[other]]_vars
    /\ [](\A rid \in RunIds :
            /\ runs[rid].pc # "start"
                 => \E i \in EmailEntries : rid \in elog[i].created
            /\ (/\ runs[rid].pc = "start"
                /\ runs[rid].after # 0 => RunHasEnded(runs[rid].after))
                 => ENABLED RunStart(rid))

\* C27 witness: one email gave two receipts; the run of the first failed
\* and the run of the second went through after it; the response is the
\* 'success' of before
C27_Witness ==
    /\ Len(receipts) = 2
    /\ \E i \in EmailEntries :
         elog[i].status = "success" /\ elog[i].created = {1, 2}
    /\ runs[1].outcome = "raised" /\ receipts[1].status = FAILED
    /\ runs[2].pc = "done" /\ runs[2].outcome # "raised"
    /\ receipts[2].status = PENDING
    /\ HasEvent(2, "ocr_completed")


(***************************************************************************)
(* Direct upload: the checks before anything is created.                   *)
(***************************************************************************)
\* this step is the first of an upload request
UploadStarts == ureq.pc = "idle" /\ quota'.uploads # quota.uploads

\* the content types of a raster image or a document
SupportedTypes == {"image/jpeg", "image/jpg", "image/png", "application/pdf"}

\* C28: an upload of a file with an unsupported content type or of more
\* than 10 MiB is refused (400, or 403 by the limit check before it) and
\* its step creates no receipt row, no stored object, no audit event and no
\* pipeline run; a file of exactly 10 MiB with a supported type is never
\* refused as invalid; the step of an accepted upload appends exactly one
\* receipt, PENDING, with its image stored and its run not yet begun, and
\* the run of an uploaded receipt starts from PENDING.
C28_UploadValidatedFirst ==
    /\ [][UploadStarts =>
            LET file == ureq'.payload
            IN /\ (file.content_type \notin SupportedTypes \/ file.size > 10 * 1024 * 1024)
                    => /\ ureq'.pc = "idle"
                       /\ ureq'.code \in {"400", "403"}
                       /\ receipts' = receipts /\ store' = store
                       /\ audit' = audit /\ runs' = runs
               /\ (file.content_type \in SupportedTypes /\ file.size = 10 * 1024 * 1024)
                    => ~(ureq'.pc = "idle" /\ ureq'.code = "400")
               /\ ureq'.pc # "idle"
                    => /\ ureq'.pc = "upload_log"
                       /\ Len(receipts') = Len(receipts) + 1
                       /\ ureq'.rid = Len(receipts')
                       /\ receipts'[ureq'.rid].status = PENDING
                       /\ receipts'[ureq'.rid].image_url \in store' \ store
                       /\ audit'[ureq'.rid] = <<>>
                       /\ runs'[ureq'.rid].pc = "none"]_vars
    /\ [](\A rid \in RunIds :
            (runs[rid].caller = "upload" /\ runs[rid].pc = "start")
               => receipts[rid].status = PENDING)

\* C28 witness: an upload of an image of one byte more than 10 MiB was
\* answered 400 and nothing was created
C28_Witness ==
    /\ ureq.pc = "idle" /\ ureq.op = "upload" /\ ureq.code = "400"
    /\ ureq.payload.content_type \in SupportedTypes
    /\ ureq.payload.size = 10 * 1024 * 1024 + 1
    /\ receipts = <<>> /\ store = {} /\ audit = <<>> /\ runs = <<>>


(***************************************************************************)
(* The order of a pipeline run and the events it appends.                  *)
(***************************************************************************)
\* the steps of a run that goes through, in order
RunOrder ==
    << "none", "start", "log_processing", "extract", "merge", "log_ocr",
       "log_pending", "dupcheck", "done" >>

\* the steps that can end in the failure handler, and the handler's own
FailureMoves ==
    { <<pc, "fail">> : pc \in {"log_processing", "extract", "merge",
                                "log_ocr", "log_pending"} }
      \cup { <<"fail", "log_failed">>, <<"log_failed", "done">> }

RunGoes(rid, from, to) == runs[rid].pc = from /\ runs'[rid].pc = to

\* the events this step appends to the history of receipt rid
Appended(rid) == SubSeq(audit'[rid], Len(audit[rid]) + 1, Len(audit'[rid]))

\* this step appends one status-changed event from old to new
AppendsStatusChange(rid, old, new) ==
    /\ Len(Appended(rid)) = 1
    /\ Appended(rid)[1].event_type = "status_changed"
    /\ Appended(rid)[1].old_value = old
    /\ Appended(rid)[1].new_value = new

\* C29: a run goes through its steps in one order only: status PROCESSING,
\* the status-changed event, text extraction with the raw text persisted,
\* parsing and merge with the status back to PENDING, the
\* extraction-completed event, the status-changed event, the duplicate
\* check; a step can only go on to the next one or to the failure handler,
\* so a receipt never has two runs at work.  The run that goes through
\* appends exactly three events: status-changed from pending to
\* processing, extraction-completed with the merged field map,
\* status-changed from processing to pending.
C29_RunOrderAndEvents ==
    [][\A rid \in RunIds :
         runs'[rid].pc # runs[rid].pc =>
           /\ \/ \E k \in 1..(Len(RunOrder) - 1) :
                   RunGoes(rid, RunOrder[k], RunOrder[k + 1])
              \/ <<runs[rid].pc, runs'[rid].pc>> \in FailureMoves
           /\ RunGoes(rid, "start", "log_processing")
                => /\ receipts'[rid].status = PROCESSING
                   /\ Appended(rid) = <<>>
           /\ RunGoes(rid, "log_processing", "extract")
                => AppendsStatusChange(rid, PENDING, PROCESSING)
           /\ RunGoes(rid, "extract", "merge")
                => /\ receipts'[rid].ocr_raw_text = runs'[rid].raw_text
                   /\ receipts'[rid].ocr_raw_text # NULL
                   /\ Appended(rid) = <<>>
           /\ RunGoes(rid, "merge", "log_ocr")
                => /\ receipts'[rid].status = PENDING
                   /\ Appended(rid) = <<>>
           /\ RunGoes(rid, "log_ocr", "log_pending")
                => /\ Len(Appended(rid)) = 1
                   /\ Appended(rid)[1].event_type = "ocr_completed"
                   /\ Appended(rid)[1].extra_data.extracted_fields
                        = runs[rid].extracted_fields
           /\ RunGoes(rid, "log_pending", "dupcheck")
                => AppendsStatusChange(rid, PROCESSING, PENDING)
           /\ RunGoes(rid, "dupcheck", "done")
                => /\ Appended(rid) = <<>>
                   /\ runs'[rid].outcome = "returned"]_vars


\* the map of the except branch of parse_receipt_with_ai: every field
\* None, the items an empty list
ParseFailed(rid) ==
    runs[rid].parsed_data =
        [vendor |-> NULL, date |-> NULL, total_amount |-> NULL,
         tax_amount |-> NULL, items |-> "[]", category |-> NULL]

InitParse ==
    /\ InitDb
    /\ quota = [NoQuota EXCEPT !.emails = 1, !.inbox = "attachments",
                             !.parses = "all", !.receipts = MaxAttach]

SpecParse == InitParse /\ [][NextBackground]_vars

ParsedFields ==
    {"vendor", "date", "total_amount", "tax_amount", "items", "category"}

\* the parser returned a value for field f that the merge can write: not
\* null (nor empty), for the date a valid ISO calendar date, for the
\* category a display value of the enumeration
Writable(p, f) ==
    /\ p[f] \notin {NULL, "", "[]"}
    /\ f = "date" => p[f] \in {"2026-02-01", "2026-02-02"}
    /\ f = "category" => p[f] \in {"Office Costs", "Travel Costs", "Other"}

\* the names of the fields in an extracted-fields map
Keys(fields) == {w[1] : w \in fields}

\* C31: the merge writes a receipt field only when the parser returned a
\* value for it: a field returned as null, a date that is not a valid ISO
\* calendar date and a category that is no display value of the
\* enumeration leave the stored field as it was and do not fail the run
\* (only an amount that is not a number does), and the extraction-completed
\* event carries exactly the fields that were written, with the values the
\* parser returned.
C31_MergeWritesReturnedFields ==
    [][\A rid \in RunIds :
         LET p == runs'[rid].parsed_data
         IN /\ runs[rid].pc = "merge" /\ runs'[rid].pc # "merge"
                => /\ \A f \in ParsedFields :
                        ~Writable(p, f) => receipts'[rid][f] = receipts[rid][f]
                   /\ runs'[rid].pc = "fail"
                        => \E f \in {"total_amount", "tax_amount"} :
                             p[f] \notin {NULL, "0", "7.0", "42.50"}
                   /\ runs'[rid].pc = "log_ocr"
                        => /\ Keys(runs'[rid].extracted_fields)
                                = {f \in ParsedFields : Writable(p, f)}
                           /\ \A w \in runs'[rid].extracted_fields :
                                /\ w[2] = p[w[1]]
                                /\ receipts'[rid][w[1]] # NULL
            /\ RunGoes(rid, "log_ocr", "log_pending")
                => /\ Len(Appended(rid)) = 1
                   /\ Appended(rid)[1].event_type = "ocr_completed"
                   /\ Appended(rid)[1].extra_data.extracted_fields
                        = runs[rid].extracted_fields]_vars

\* C31 witness: the parser returned a date that is no ISO date with all
\* other fields; the run went on, the receipt has the parsed vendor and the
\* date it had, and the event carries every field but the date
C31_Witness ==
    \E rid \in RunIds :
        /\ runs[rid].pc = "dupcheck"
        /\ runs[rid].parsed_data.date = "01/02/2026"
        /\ receipts[rid].vendor = "Acme"
        /\ receipts[rid].date = "2026-01-01 09:00"
        /\ \E k \in 1..Len(audit[rid]) :
             /\ audit[rid][k].event_type = "ocr_completed"
             /\ Keys(audit[rid][k].extra_data.extracted_fields)
                  = ParsedFields \ {"date"}


(***************************************************************************)
(* The duplicate check after approve and edit; the flag over time.         *)
(***************************************************************************)
KeyFields == {"vendor", "total_amount", "date"}

\* this step ends a successful approve of receipt rid, or an edit of it
\* whose body has vendor, total amount or date
CheckedRequestEnds(rid) ==
    /\ ureq.rid = rid
    /\ ureq'.pc = "idle" /\ ureq'.code = "200"
    /\ \/ ureq.pc = "approve_dup"
       \/ ureq.pc = "edit_dup" /\ DOMAIN ureq.payload \cap KeyFields # {}

\* this step belongs to an edit of receipt rid whose body has none of
\* vendor, total amount and date
OtherEditStep(rid) ==
    \/ /\ RequestBegins("edit", rid)
       /\ ureq'.pc # "idle"
       /\ DOMAIN ureq'.payload \cap KeyFields = {}
    \/ /\ ureq.op = "edit" /\ ureq.rid = rid
       /\ ureq.pc \in {"edit_log", "edit_dup"}
       /\ ureq'.pc # ureq.pc
       /\ DOMAIN ureq.payload \cap KeyFields = {}

\* C32: the detector runs at the end of every successful approve and of
\* every edit of vendor, total amount or date, and right after it the
\* receipt is flagged whenever another live receipt of the same user has
\* its vendor, total amount and calendar date; an edit of other fields
\* leaves the suspect flag and the duplicate reference as they were.
C32_CheckedAfterApproveAndEdit ==
    [][\A rid \in ReceiptIds :
         /\ CheckedRequestEnds(rid)
              => /\ ureq'.detector = "returned"
                 /\ (AllSet(receipts'[rid]) /\ Matches(receipts', rid) # {})
                      => receipts'[rid].duplicate_suspect = 1
         /\ OtherEditStep(rid)
              => /\ receipts'[rid].duplicate_suspect = receipts[rid].duplicate_suspect
                 /\ receipts'[rid].duplicate_of_id = receipts[rid].duplicate_of_id]_vars


(***************************************************************************)
(* The ledger over time.                                                   *)
(***************************************************************************)
\* C33: a ledger row disappears only in the step of a request that runs
\* the cleanup, only when the ledger holds more rows than the threshold,
\* and only if it is older than the retention window; the row of the
\* message the request handles stays; so of two deliveries of one message,
\* the second coming after the first was recorded and within the retention
\* window, the second is answered 'duplicate'.
C33_OnlyPruningRemovesOldRows ==
    /\ [][/\ \A row \in ledger \ ledger' :
               /\ EmailResponds
               /\ Cardinality(ledger) > PruneThreshold
               /\ now - row.at > RetentionDays
          /\ \A s \in Slots :
               (reqs[s].pc = "process" /\ reqs'[s].pc # "process")
                 => \E row \in ledger' : row.hash = EmailHash(reqs[s].msg)]_vars
    /\ [](\A i, j \in EmailEntries :
            (/\ Sequential(i, j) /\ SameMessage(i, j)
             /\ elog[i].recorded
             /\ elog[j].at - elog[i].at <= RetentionDays)
               => RejectedAsDuplicate(j))

\* C33 witness: a request ran the cleanup, which removed an older row and
\* left the row of its own message, and the same message sent again on the
\* same day was answered 'duplicate'
C33_Witness ==
    \E k \in 1..Len(elog), i, j \in EmailEntries :
        /\ elog[k].kind = "prune"
        /\ i = k + 1
        /\ Sequential(i, j) /\ SameMessage(i, j)
        /\ elog[i].recorded
        /\ elog[j].at = elog[i].at
        /\ elog[j].status = "duplicate"
        /\ \E row \in ledger : row.hash = EmailHash(elog[i].msg)


(***************************************************************************)
(* The background runs under fair scheduling.                              *)
(***************************************************************************)
\* one email with the most attachments, the runs of its receipts, and the
\* owner approving beside them; audit writes may fail
InitFair ==
    /\ InitDb
    /\ quota = [NoQuota EXCEPT !.emails = 1, !.inbox = "attachments",
                             !.ops = 1, !.callers = {1},
                             !.auditfail = TRUE,
                             !.receipts = MaxAttach]

NextFair ==
    \/ \E s \in Slots, m \in Msgs : EmailLookup(s, m)
    \/ \E s \in Slots : EmailRecord(s)
    \/ \E s \in Slots : EmailProcess(s)
    \/ \E rid \in RunIds : RunStep(rid)
    \/ \E u \in Callers, rid \in 1..MaxAttach : ApproveBegin(u, rid)
    \/ ApproveLog
    \/ ApproveLogStatus
    \/ ApproveReturn

\* the next step of the run of receipt rid, once the receipt exists
FairRun(rid) == rid \in RunIds /\ RunStep(rid)

\* Starlette runs the tasks of a response to their end, and every call of
\* process_receipt_ocr returns or raises: a run that can take its next step
\* takes it
SpecFair ==
    /\ InitFair
    /\ [][NextFair]_vars
    /\ \A rid \in 1..MaxAttach : WF_vars(FairRun(rid))

C35_CompletedIsStable ==
    [][\A rid \in ReceiptIds :
          receipts[rid].status = COMPLETED
            => receipts'[rid].status = COMPLETED]_vars


\* the status-changed events of a receipt, in the order they were written
StatusEvents(rid) ==
    SelectSeq(audit[rid], LAMBDA e : e.event_type = "status_changed")

\* no request is being served and the run of the receipt, if it has one,
\* has ended
NothingInFlight(rid) ==
    ureq.pc = "idle" /\ runs[rid].pc \in {"none", "done"}

\* C36: when nothing is in flight on a receipt, each of its status-changed
\* events starts from the value the one before it ended with (PENDING for
\* the first), and the last one ends with the status of the receipt
C36_StatusEventsFormChain ==
    \A rid \in ReceiptIds :
        NothingInFlight(rid) =>
            LET S == StatusEvents(rid) IN
            /\ \A k \in 1..Len(S) :
                 S[k].old_value = IF k = 1 THEN PENDING ELSE S[k - 1].new_value
            /\ S # <<>> => S[Len(S)].new_value = receipts[rid].status


\* C37: the failure handler of a run commits the receipt with the vendor,
\* date, amounts, items and category it had before the handler ran
C37_FailureCommitsNoMerge ==
    [][\A rid \in RunIds :
          (runs[rid].pc = "fail" /\ runs'[rid].pc = "log_failed")
            => /\ receipts'[rid].status = FAILED
               /\ \A f \in ParsedFields :
                    receipts'[rid][f] = receipts[rid][f]]_vars


(***************************************************************************)
(* The suspect flag over the requests of one user on two receipts.         *)
(***************************************************************************)
MaxSuspectOps == 3

\* two receipts created through POST /receipts and a few requests of the
\* first user on them
InitSuspect ==
    /\ InitDb
    /\ quota = [NoQuota EXCEPT !.creates = 2, !.ops = MaxSuspectOps,
                               !.edits = "keys", !.callers = {1},
                               !.receipts = 2]

NextSuspect ==
    \/ \E c \in DupCreates : CreateReceipt(c[1], c[2], ExternalImage)
    \/ \E rid \in 1..2, payload \in EditPayloads("keys") :
         EditBegin(1, rid, payload)
    \/ EditLog
    \/ EditReturn
    \/ \E rid \in 1..2 : ApproveBegin(1, rid)
    \/ ApproveLog
    \/ ApproveLogStatus
    \/ ApproveReturn
    \/ \E rid \in 1..2 : DeleteBegin(1, rid)
    \/ DeleteCommit
    \/ \E rid \in 1..2 : RestoreBegin(1, rid)
    \/ RestoreLog
    \/ \E rid \in 1..2 : DismissDuplicate(1, rid)

SpecSuspect == InitSuspect /\ [][NextSuspect]_vars

\* this step serves a dismiss-duplicate request that finds the receipt
DismissStep(rid) ==
    /\ quota'.ops # quota.ops
    /\ ureq'.op = "dismiss" /\ ureq'.rid = rid /\ ureq'.code = "200"

\* C38: no step takes the suspect flag of a receipt back or empties its
\* duplicate reference; a dismiss-duplicate request sets the dismissed flag
\* of its receipt and nothing else, and no other step changes a dismissed
\* flag
C38_SuspectFlagIsMonotonic ==
    [][\A rid \in ReceiptIds :
          /\ receipts[rid].duplicate_suspect = 1
               => /\ receipts'[rid].duplicate_suspect = 1
                  /\ receipts'[rid].duplicate_of_id # 0
          /\ IF DismissStep(rid)
             THEN receipts' = [receipts EXCEPT ![rid].duplicate_dismissed = 1]
             ELSE receipts'[rid].duplicate_dismissed
                    = receipts[rid].duplicate_dismissed]_vars

\* C38 witness: a flagged and dismissed receipt was edited, the detector
\* ran at the end of the edit with nothing left that matches, and the flag
\* and the reference are still there
C38_Witness ==
    \E rid \in ReceiptIds :
        /\ receipts[rid].duplicate_suspect = 1
        /\ receipts[rid].duplicate_of_id # 0
        /\ receipts[rid].duplicate_dismissed = 1
        /\ ureq.pc = "idle" /\ ureq.op = "edit" /\ ureq.rid = rid
        /\ ureq.code = "200" /\ ureq.detector = "returned"
        /\ Matches(receipts, rid) = {}


\* C39: no two receipts are each flagged as a duplicate of the other
C39_NoMutualDuplicates ==
    \A a, b \in ReceiptIds :
        ~ /\ a # b
          /\ receipts[a].duplicate_suspect = 1
          /\ receipts[a].duplicate_of_id = b
          /\ receipts[b].duplicate_suspect = 1
          /\ receipts[b].duplicate_of_id = a

=============================================================================
